---- MODULE Spec2Model ----
(***************************************************************************)
(* Runtime lifecycle orchestrator of the Kubernetes executor.              *)
(*                                                                         *)
(* The cluster (Deployments, Services, build Jobs, the Lease) and the      *)
(* object store are the shared state.  Every handler is a process whose    *)
(* steps are the segments of code between two awaits: one cluster or       *)
(* object-store call per step, since a replica runs its JavaScript on one  *)
(* thread and other requests and replicas interleave only at awaits.       *)
(*                                                                         *)
(* The Kubernetes client is used as the handlers use it: a ...WithHttpInfo *)
(* read reports a missing object as httpStatusCode 404, every other call   *)
(* throws on a non-2xx answer (create of an existing name: 409, replace,   *)
(* patch or delete of a missing one: 404).                                 *)
(***************************************************************************)
EXTENDS Integers, Sequences, FiniteSets, TLC

VARIABLES
  dep,          \* Deployment dep-{id}: spec.replicas and the appwrite.io/ annotations
  svc,          \* Service svc-{id} exists
  s3,           \* object store: key -> size of the object, 0 when there is none
  job,          \* build Job of each create request
  cleanupJobs,  \* cleanup Jobs created for a runtime id and not yet run
  cr,           \* create requests (POST /v1/runtimes)
  dl,           \* delete requests (DELETE /v1/runtimes/:runtimeId)
  clock,        \* wall clock, in seconds
  lease,        \* the Lease executor-maintenance-lock
  mt,           \* the maintenance loop of each executor replica
  inv,          \* invocations (POST /v1/runtimes/:runtimeId/executions)
  ex,           \* invocations, every step of the handler
  pod,          \* the pod of each runtime Deployment
  tail,         \* a tail started by tailFileInPod
  proc,         \* the executor process: signals, shutdown, exit
  auth,         \* a request at authMiddleware
  pass,         \* a response of the in-pod server on its way to the caller
  req           \* requests to the parts that keep no state: list, headers, probe

vars == <<dep, svc, s3, job, cleanupJobs, cr, dl, clock, lease, mt, inv,
          ex, pod, tail, proc, auth, pass, req>>
lifeVars == <<svc, s3, job, cleanupJobs, cr, dl>>
maintVars == <<clock, lease, mt, inv>>
execVars == <<ex, pod>>
partVars == <<tail, proc, auth, pass, req>>

(***************************************************************************)
(* Bounds and input sets                                                   *)
(***************************************************************************)
Ids == {"r1", "r2"}
\* the runtime id the create and delete requests name
RequestIds == {"r1"}
Creators == {"c1", "c2"}
Deleters == {"d1"}
\* sizes an uploaded artifact may have
MaxSize == 1
Sizes == 1..MaxSize

NoKey == ""
SrcKey(id) == id \o "/src.tar.gz"
DstKey(id) == id \o "/out.tar.gz"
\* `${runtimeId}/${buildId}.tar.gz`: buildId is a fresh uuid per create request
GenKey(id, p) == id \o "/" \o p \o ".tar.gz"
Keys == {SrcKey(id) : id \in RequestIds} \cup {DstKey(id) : id \in RequestIds}
          \cup {GenKey(id, p) : id \in RequestIds, p \in Creators}
KeysOf(id) == {SrcKey(id), DstKey(id)} \cup {GenKey(id, p) : p \in Creators}

NoAnnotation == -1

MsgBeingCreated == "A runtime with the same ID is already being created. Attempt an execution soon."
MsgAlreadyExists == "Runtime already exists"

(***************************************************************************)
(* k8s/definitions.ts                                                      *)
(***************************************************************************)
NoDeployment ==
  [exists |-> FALSE, status |-> "", initialised |-> 0, listening |-> 0,
   replicas |-> 0, lastExec |-> NoAnnotation, artifactPath |-> NoKey, secret |-> ""]

InitialReplicasOne(artifactPath, secret) ==
  [exists |-> TRUE, status |-> "pending", initialised |-> 0, listening |-> 0,
   replicas |-> 1, lastExec |-> NoAnnotation, artifactPath |-> artifactPath,
   secret |-> secret]

\* The annotations carry no last-execution-time; ARTIFACT_PATH is the env of the
\* fetch-artifact init container.
createRuntimeDeploymentDefinition(artifactPath, secret) ==
  [exists |-> TRUE, status |-> "pending", initialised |-> 0, listening |-> 0,
   replicas |-> 0, lastExec |-> NoAnnotation, artifactPath |-> artifactPath,
   secret |-> secret]

NoJob == [state |-> "none", target |-> NoKey]

\* The build container runs the command, then `tar -czf`, then
\* `aws s3 cp /tmp/artifact.tar.gz s3://$S3_BUCKET/${artifactPath}`.
createBuildJobDefinition(artifactPath) == [state |-> "active", target |-> artifactPath]

(***************************************************************************)
(* utils/runtime.ts                                                        *)
(***************************************************************************)
runtimeExists(id) == dep[id].exists

Null == [status |-> "null"]
getRuntimeStatus(id) ==
  IF dep[id].exists
    THEN [status |-> dep[id].status, initialised |-> dep[id].initialised,
          listening |-> dep[id].listening]
    ELSE Null

\* updateRuntimeStatus(runtimeId, {status: `Up ...s`, initialised: 1, updated})
\* applied to a Deployment that exists
StampUp(d) == [d EXCEPT !.status = "Up", !.initialised = 1]

(***************************************************************************)
(* Requests                                                                *)
(***************************************************************************)
NoResponse == [code |-> 0, type |-> "", message |-> "", path |-> NoKey, size |-> 0]
Response(code, type, message) ==
  [code |-> code, type |-> type, message |-> message, path |-> NoKey, size |-> 0]

IdleCreate ==
  [pc |-> "idle", id |-> "", command |-> FALSE, source |-> FALSE,
   destination |-> FALSE, remove |-> FALSE, artifactPath |-> NoKey,
   uploaded |-> 0, resp |-> NoResponse,
   \* history: what the request observed and did
   sawDeployment |-> FALSE, sawStatus |-> "", writes |-> 0, fault |-> FALSE,
   touched |-> FALSE,
   \* history: how the wait for the build Job ended
   sawJob |-> ""]

IdleDelete == [pc |-> "idle", id |-> "", resp |-> NoResponse, svcFailed |-> FALSE,
               createRan |-> FALSE,
               \* history: the Deployment delete succeeded, the cleanup Job was refused
               depDeleted |-> FALSE, jobFailed |-> FALSE]

InFlight(p) == cr[p].pc \notin {"idle", "done"}
DeleteInFlight(d) == dl[d].pc \notin {"idle", "done"}

\* history bookkeeping: request `me` changed dep-{id} or svc-{id}; every other
\* create request for that id that has passed its existence check is touched
Touch(c, me, id) ==
  [p \in Creators |->
     IF p # me /\ c[p].id = id /\ c[p].pc \notin {"idle", "exists"}
       THEN [c[p] EXCEPT !.touched = TRUE] ELSE c[p]]

(***************************************************************************)
(* maintenance/loop.ts: constants and state                                *)
(***************************************************************************)
\* the replicas whose maintenance loop runs, and one more replica that holds or
\* held the Lease and sleeps meanwhile
Replicas == {"a", "b"}
OtherReplica == "x"
Invokers == {"i1"}

\* seconds (the code compares milliseconds: both sides times 1000)
INACTIVE_THRESHOLD == 300
LEASE_DURATION == 30

\* The clock advances in steps of one lease duration.  MAINTENANCE_INTERVAL is
\* configuration (OPR_EXECUTOR_MAINTENANCE_INTERVAL); the timer of the sleep
\* fires at any time after it was armed.
TickStep == LEASE_DURATION
MaxTicks == 2
StartClock == INACTIVE_THRESHOLD
MaxClock == StartClock + MaxTicks * TickStep

NoLease == [exists |-> FALSE, holderIdentity |-> "", acquireTime |-> 0, renewTime |-> 0]

StoppedLoop ==
  [isRunning |-> FALSE, shutdownRequested |-> FALSE,
   maintenanceTimeoutId |-> FALSE,  \* FALSE is null
   timer |-> "none",                \* of the last setTimeout: armed, fired or cleared
   pc |-> "stopped",
   now |-> 0, leaseBody |-> NoLease, items |-> <<>>, i |-> 0,
   \* history of the last acquireLease() call, kept until the replica's next step
   result |-> "none", concurrent |-> FALSE, held |-> "",
   \* history: the Lease as acquireLease() read it and whether one of its calls
   \* threw; the time of the list and the Deployments patched in this cycle;
   \* the loops started and those between their start and their exit
   seen |-> NoLease, threw |-> FALSE, listed |-> 0, patched |-> {},
   starts |-> 0, active |-> 0]

\* cold: the invocation found replicas 0 and scaled the Deployment up
IdleInvoke == [pc |-> "idle", id |-> "", cold |-> FALSE]

(***************************************************************************)
(* State of the other parts when they are at rest                          *)
(***************************************************************************)
Execs == {"e1"}

IdleExec ==
  [pc |-> "idle", id |-> "", image |-> FALSE, source |-> FALSE,
   listening |-> 0,        \* status.listening as read by getRuntimeStatus
   start |-> 0,            \* prepareStart
   resp |-> NoResponse,
   \* history of the invocation
   missing |-> FALSE,      \* runtimeExists returned false
   created |-> FALSE,      \* the create endpoint answered 201 to this invocation
   cold |-> FALSE,         \* it read replicas 0 and patched replicas to 1
   sawReady |-> FALSE,     \* it read readyReplicas == 1
   probed |-> FALSE,       \* checkPodListening returned true
   got |-> FALSE,          \* the in-pod server answered
   failedPatch |-> ""]     \* the annotation patch that threw

ExecIdle ==
  /\ ex = [e \in Execs |-> IdleExec]
  /\ pod = [id \in Ids |-> "none"]

\* No tail started: nothing appended to the file, nothing on the stream.
NoTail == [started |-> FALSE, cancelled |-> FALSE, closed |-> FALSE,
           appended |-> 0, sent |-> 0, delivered |-> 0,
           \* history: chunks handed to onData after the cancel handle returned
           afterCancel |-> 0]
TailIdle == tail = NoTail

NoExit == -1

\* The process before its entry point has run.
NoProcess ==
  [pc |-> "none", isShuttingDown |-> FALSE, serverStopped |-> FALSE,
   exitCode |-> NoExit,
   \* history: signals received, what gracefulShutdown did in order, and
   \* what ended the wait
   signals |-> 0, trail |-> <<>>, by |-> ""]
ProcIdle == proc = NoProcess

NoRequest == [pc |-> "none"]
AuthIdle == auth = NoRequest

NoPass == [pc |-> "none"]
PassIdle == pass = NoPass

NoList == [pc |-> "none"]

NoHeaders == [pc |-> "none"]

NoProbe == [pc |-> "none"]

NoWait == [pc |-> "none"]

NoLogs == [pc |-> "none"]

NoSecret == [pc |-> "none"]

NoReq == [list |-> NoList, hdr |-> NoHeaders, probe |-> NoProbe, wait |-> NoWait,
          logs |-> NoLogs, sec |-> NoSecret]

PartsIdle == TailIdle /\ ProcIdle /\ AuthIdle /\ PassIdle /\ req = NoReq

TypeOK ==
  /\ \A id \in Ids : dep[id].replicas \in 0..1
  /\ \A k \in Keys : s3[k] \in 0..MaxSize

Init ==
  /\ dep = [id \in Ids |-> NoDeployment]
  /\ svc = [id \in Ids |-> FALSE]
  \* the caller's source is in the store
  /\ s3 = [k \in Keys |-> IF k \in {SrcKey(id) : id \in RequestIds} THEN 1 ELSE 0]
  /\ job = [p \in Creators |-> NoJob]
  /\ cleanupJobs = [id \in Ids |-> 0]
  /\ cr = [p \in Creators |-> IdleCreate]
  /\ dl = [d \in Deleters |-> IdleDelete]
  /\ clock = StartClock
  /\ lease = NoLease
  /\ mt = [r \in Replicas |-> StoppedLoop]
  /\ inv = [i \in Invokers |-> IdleInvoke]
  /\ ExecIdle
  /\ PartsIdle

(***************************************************************************)
(* POST /v1/runtimes                                                       *)
(***************************************************************************)
\* The request bodies: c1 ranges over every body, the request that runs beside it
\* is a create without build and without remove.
CreateInputs(p) ==
  {b \in [id : RequestIds, command : BOOLEAN, source : BOOLEAN, destination : BOOLEAN,
          remove : BOOLEAN] : p # "c1" => ~b.command /\ ~b.remove}

\* The request body is read; runtimeId and image are given.
CreateStart(p) ==
  /\ cr[p].pc = "idle"
  /\ \E b \in CreateInputs(p) :
       /\ cr' = [q \in Creators |->
                   IF q = p
                     THEN [IdleCreate EXCEPT !.pc = "exists", !.id = b.id,
                             !.command = b.command, !.source = b.source,
                             !.destination = b.destination, !.remove = b.remove]
                   ELSE cr[q]]
       /\ dl' = [d \in Deleters |->
                   IF dl[d].pc # "idle" /\ dl[d].id = b.id
                     THEN [dl[d] EXCEPT !.createRan = TRUE] ELSE dl[d]]
  /\ UNCHANGED <<dep, svc, s3, job, cleanupJobs>>
  /\ UNCHANGED <<maintVars, execVars, partVars>>

PassExistenceCheck(p) ==
  LET id == cr[p].id IN
  IF cr[p].command
    THEN [cr EXCEPT ![p].pc = IF cr[p].source THEN "getobj" ELSE "mkjob"]
    ELSE [cr EXCEPT ![p].pc = "rdsvc",
                    ![p].artifactPath = IF cr[p].source THEN SrcKey(id) ELSE NoKey]

\* if (await runtimeExists(runtimeId)) ...; otherwise the secret is drawn and the
\* variables are merged, up to the next await
CreateCheckExists(p) ==
  /\ cr[p].pc = "exists"
  /\ IF runtimeExists(cr[p].id)
       THEN cr' = [cr EXCEPT ![p].pc = "status", ![p].sawDeployment = TRUE]
       ELSE cr' = PassExistenceCheck(p)
  /\ UNCHANGED <<dep, svc, s3, job, cleanupJobs, dl>>
  /\ UNCHANGED <<maintVars, execVars, partVars>>

ConflictMessageSingle(status) == MsgAlreadyExists

ConflictMessage(status) ==
  IF status.status = "pending" THEN MsgBeingCreated ELSE MsgAlreadyExists

\* const status = await getRuntimeStatus(runtimeId); both branches answer 409
CreateConflict(p) ==
  /\ cr[p].pc = "status"
  /\ LET status == getRuntimeStatus(cr[p].id) IN
       cr' = [cr EXCEPT ![p].pc = "done", ![p].sawStatus = status.status,
                ![p].resp = Response(409, "runtime_conflict", ConflictMessage(status))]
  /\ UNCHANGED <<dep, svc, s3, job, cleanupJobs, dl>>
  /\ UNCHANGED <<maintVars, execVars, partVars>>

\* GetObject of the source; an S3 error answers runtime_failed
CreateGetObject(p) ==
  /\ cr[p].pc = "getobj"
  /\ IF s3[SrcKey(cr[p].id)] > 0
       THEN cr' = [cr EXCEPT ![p].pc = "mkjob"]
       ELSE cr' = [cr EXCEPT ![p].pc = "done", ![p].fault = TRUE,
                     ![p].resp = Response(500, "runtime_failed", "Failed to download source")]
  /\ UNCHANGED <<dep, svc, s3, job, cleanupJobs, dl>>
  /\ UNCHANGED <<maintVars, execVars, partVars>>

\* artifactPath = `${runtimeId}/${buildId}.tar.gz`; createNamespacedJob
CreateJob(p) ==
  /\ cr[p].pc = "mkjob"
  /\ LET artifactPath == GenKey(cr[p].id, p) IN
       /\ job' = [job EXCEPT ![p] = createBuildJobDefinition(artifactPath)]
       /\ cr' = [cr EXCEPT ![p].pc = "poll", ![p].artifactPath = artifactPath,
                   ![p].writes = @ + 1]
  /\ UNCHANGED <<dep, svc, s3, cleanupJobs, dl>>
  /\ UNCHANGED <<maintVars, execVars, partVars>>

\* the build pod: the command succeeds and the artifact is uploaded
JobSucceed(p) ==
  /\ job[p].state = "active"
  /\ \E size \in Sizes :
       /\ s3' = [s3 EXCEPT ![job[p].target] = size]
       /\ cr' = [cr EXCEPT ![p].uploaded = size]
  /\ job' = [job EXCEPT ![p].state = "succeeded"]
  /\ UNCHANGED <<dep, svc, cleanupJobs, dl>>
  /\ UNCHANGED <<maintVars, execVars, partVars>>

JobFail(p) ==
  /\ job[p].state = "active"
  /\ job' = [job EXCEPT ![p].state = "failed"]
  /\ UNCHANGED <<dep, svc, s3, cleanupJobs, cr, dl>>
  /\ UNCHANGED <<maintVars, execVars, partVars>>

KeepGeneratedPath(p) == cr[p].artifactPath

\* if (destination) { artifactPath = destination }
DestinationOverride(p) ==
  IF cr[p].destination THEN DstKey(cr[p].id) ELSE cr[p].artifactPath

\* one read of the Job that finds it finished (a read that finds it active, or
\* not yet visible, only delays)
CreatePoll(p) ==
  /\ cr[p].pc = "poll"
  /\ job[p].state \in {"succeeded", "failed"}
  /\ IF job[p].state = "succeeded"
       THEN cr' = [cr EXCEPT ![p].pc = "rdsvc", ![p].artifactPath = DestinationOverride(p),
                     ![p].sawJob = "succeeded"]
       ELSE cr' = [cr EXCEPT ![p].pc = "done", ![p].fault = TRUE, ![p].sawJob = "failed",
                     ![p].resp = Response(500, "runtime_failed", "Build job failed")]
  /\ UNCHANGED <<dep, svc, s3, job, cleanupJobs, dl>>
  /\ UNCHANGED <<maintVars, execVars, partVars>>

\* one read of the Job that the API server answers with an error other than
\* 404: thrown, and caught while buildSucceeded is false
CreatePollFails(p) ==
  /\ cr[p].pc = "poll"
  /\ cr' = [cr EXCEPT ![p].pc = "done", ![p].fault = TRUE, ![p].sawJob = "error",
              ![p].resp = Response(500, "runtime_failed", "Failed to read job")]
  /\ UNCHANGED <<dep, svc, s3, job, cleanupJobs, dl>>
  /\ UNCHANGED <<maintVars, execVars, partVars>>

CreatePollGivesUp(p) ==
  /\ cr[p].pc = "poll"
  /\ cr' = [cr EXCEPT ![p].pc = "rdsvc", ![p].artifactPath = DestinationOverride(p),
              ![p].sawJob = "deadline"]
  /\ UNCHANGED <<dep, svc, s3, job, cleanupJobs, dl>>
  /\ UNCHANGED <<maintVars, execVars, partVars>>

\* the while condition fails before the Job was seen finished
CreatePollTimeout(p) ==
  /\ cr[p].pc = "poll"
  /\ cr' = [cr EXCEPT ![p].pc = "done", ![p].fault = TRUE, ![p].sawJob = "deadline",
              ![p].resp = Response(500, "runtime_timeout", "Build job timed out")]
  /\ UNCHANGED <<dep, svc, s3, job, cleanupJobs, dl>>
  /\ UNCHANGED <<maintVars, execVars, partVars>>

\* readNamespacedServiceWithHttpInfo
CreateReadService(p) ==
  /\ cr[p].pc = "rdsvc"
  /\ cr' = [cr EXCEPT ![p].pc = IF svc[cr[p].id] THEN "rddep" ELSE "mksvc"]
  /\ UNCHANGED <<dep, svc, s3, job, cleanupJobs, dl>>
  /\ UNCHANGED <<maintVars, execVars, partVars>>

Failed(p, message) ==
  [cr EXCEPT ![p].pc = "done", ![p].resp = Response(500, "runtime_failed", message)]

\* createNamespacedService; a 409 is thrown to the outer catch
CreateService(p) ==
  /\ cr[p].pc = "mksvc"
  /\ LET id == cr[p].id IN
       IF svc[id]
         THEN /\ cr' = Failed(p, "HTTP-Code: 409")
              /\ UNCHANGED svc
         ELSE /\ svc' = [svc EXCEPT ![id] = TRUE]
              /\ cr' = Touch([cr EXCEPT ![p].pc = "rddep", ![p].writes = @ + 1], p, id)
  /\ UNCHANGED <<dep, s3, job, cleanupJobs, dl>>
  /\ UNCHANGED <<maintVars, execVars, partVars>>

\* readNamespacedDeploymentWithHttpInfo
CreateReadDeployment(p) ==
  /\ cr[p].pc = "rddep"
  /\ cr' = [cr EXCEPT ![p].pc = IF dep[cr[p].id].exists THEN "repdep" ELSE "mkdep"]
  /\ UNCHANGED <<dep, svc, s3, job, cleanupJobs, dl>>
  /\ UNCHANGED <<maintVars, execVars, partVars>>

\* createNamespacedDeployment
CreateDeployment(p) ==
  /\ cr[p].pc = "mkdep"
  /\ LET id == cr[p].id IN
       IF dep[id].exists
         THEN /\ cr' = Failed(p, "HTTP-Code: 409")
              /\ UNCHANGED dep
         ELSE /\ dep' = [dep EXCEPT ![id] =
                           createRuntimeDeploymentDefinition(cr[p].artifactPath, p)]
              /\ cr' = Touch([cr EXCEPT ![p].pc = "stamp", ![p].writes = @ + 1], p, id)
  /\ UNCHANGED <<svc, s3, job, cleanupJobs, dl>>
  /\ UNCHANGED <<maintVars, execVars, partVars>>

\* replaceNamespacedDeployment
ReplaceDeployment(p) ==
  /\ cr[p].pc = "repdep"
  /\ LET id == cr[p].id IN
       IF ~dep[id].exists
         THEN /\ cr' = Failed(p, "HTTP-Code: 404")
              /\ UNCHANGED dep
         ELSE /\ dep' = [dep EXCEPT ![id] =
                           createRuntimeDeploymentDefinition(cr[p].artifactPath, p)]
              /\ cr' = Touch([cr EXCEPT ![p].pc = "stamp", ![p].writes = @ + 1], p, id)
  /\ UNCHANGED <<svc, s3, job, cleanupJobs, dl>>
  /\ UNCHANGED <<maintVars, execVars, partVars>>

\* what follows the status stamp, up to the next await or the response
AfterStamp(p) ==
  IF cr[p].destination /\ cr[p].artifactPath # NoKey THEN "head"
  ELSE IF cr[p].remove THEN "rmdep"
  ELSE "done"

Created(c, p) == [c EXCEPT ![p].resp.code = 201]

\* await updateRuntimeStatus(runtimeId, {status, initialised: 1, updated})
CreateStamp(p) ==
  /\ cr[p].pc = "stamp"
  /\ LET id == cr[p].id
         next == AfterStamp(p) IN
       IF ~dep[id].exists
         THEN /\ cr' = Failed(p, "HTTP-Code: 404")
              /\ UNCHANGED dep
         ELSE /\ dep' = [dep EXCEPT ![id] = StampUp(dep[id])]
              /\ LET c == Touch([cr EXCEPT ![p].pc = next, ![p].writes = @ + 1], p, id) IN
                   cr' = IF next = "done" THEN Created(c, p) ELSE c
  /\ UNCHANGED <<svc, s3, job, cleanupJobs, dl>>
  /\ UNCHANGED <<maintVars, execVars, partVars>>

\* the patch of updateRuntimeStatus is refused although the Deployment is
\* there (an error of the API server): the outer catch answers runtime_failed
CreateStampFails(p) ==
  /\ cr[p].pc = "stamp"
  /\ dep[cr[p].id].exists
  /\ cr' = [Failed(p, "HTTP-Code: 500") EXCEPT ![p].fault = TRUE]
  /\ UNCHANGED <<dep, svc, s3, job, cleanupJobs, dl>>
  /\ UNCHANGED <<maintVars, execVars, partVars>>

\* HeadObject of artifactPath; an S3 error leaves size and path out
CreateHeadObject(p) ==
  /\ cr[p].pc = "head"
  /\ LET key == cr[p].artifactPath
         next == IF cr[p].remove THEN "rmdep" ELSE "done"
         c == IF s3[key] > 0
                THEN [cr EXCEPT ![p].pc = next, ![p].resp.size = s3[key],
                                ![p].resp.path = key]
                ELSE [cr EXCEPT ![p].pc = next] IN
       cr' = IF next = "done" THEN Created(c, p) ELSE c
  /\ UNCHANGED <<dep, svc, s3, job, cleanupJobs, dl>>
  /\ UNCHANGED <<maintVars, execVars, partVars>>

\* remove: deleteNamespacedDeployment; a failure skips the Service delete
CreateRemoveDeployment(p) ==
  /\ cr[p].pc = "rmdep"
  /\ LET id == cr[p].id IN
       IF dep[id].exists
         THEN /\ dep' = [dep EXCEPT ![id] = NoDeployment]
              /\ cr' = Touch([cr EXCEPT ![p].pc = "rmsvc", ![p].writes = @ + 1], p, id)
         ELSE /\ cr' = Created([cr EXCEPT ![p].pc = "done"], p)
              /\ UNCHANGED dep
  /\ UNCHANGED <<svc, s3, job, cleanupJobs, dl>>
  /\ UNCHANGED <<maintVars, execVars, partVars>>

\* remove: deleteNamespacedService, errors ignored
CreateRemoveService(p) ==
  /\ cr[p].pc = "rmsvc"
  /\ LET id == cr[p].id IN
       /\ svc' = [svc EXCEPT ![id] = FALSE]
       /\ cr' = Created(Touch([cr EXCEPT ![p].pc = "done", ![p].writes = @ + 1], p, id), p)
  /\ UNCHANGED <<dep, s3, job, cleanupJobs, dl>>
  /\ UNCHANGED <<maintVars, execVars, partVars>>

(***************************************************************************)
(* DELETE /v1/runtimes/:runtimeId                                          *)
(***************************************************************************)
DeleteStart(d) ==
  /\ dl[d].pc = "idle"
  /\ \E id \in RequestIds :
       dl' = [dl EXCEPT ![d] =
                [IdleDelete EXCEPT !.pc = "deldep", !.id = id,
                   !.createRan = (\E p \in Creators : InFlight(p) /\ cr[p].id = id)]]
  /\ UNCHANGED <<dep, svc, s3, job, cleanupJobs, cr>>
  /\ UNCHANGED <<maintVars, execVars, partVars>>

Deleted(id) == Response(200, "", "Runtime " \o id \o " deleted")
NotFound(id) == Response(404, "", "Runtime " \o id \o " was not found or already deleted")

\* deleteNamespacedDeploymentWithHttpInfo: 404 answers "not found", 404
DeleteDeployment(d) ==
  /\ dl[d].pc = "deldep"
  /\ LET id == dl[d].id IN
       IF dep[id].exists
         THEN /\ dep' = [dep EXCEPT ![id] = NoDeployment]
              /\ dl' = [dl EXCEPT ![d].pc = "delsvc", ![d].depDeleted = TRUE]
              /\ cr' = Touch(cr, d, id)
         ELSE /\ dl' = [dl EXCEPT ![d].pc = "done", ![d].resp = NotFound(id)]
              /\ UNCHANGED <<dep, cr>>
  /\ UNCHANGED <<svc, s3, job, cleanupJobs>>
  /\ UNCHANGED <<maintVars, execVars, partVars>>

DeleteServiceSkipped(d) ==
  /\ dl[d].pc = "delsvc"
  /\ dl' = [dl EXCEPT ![d].pc = "cleanup"]
  /\ UNCHANGED <<dep, svc, s3, job, cleanupJobs, cr>>
  /\ UNCHANGED <<maintVars, execVars, partVars>>

\* deleteNamespacedService; a missing Service throws and is ignored
DeleteService(d) ==
  /\ dl[d].pc = "delsvc"
  /\ LET id == dl[d].id IN
       /\ svc' = [svc EXCEPT ![id] = FALSE]
       /\ cr' = IF svc[id] THEN Touch(cr, d, id) ELSE cr
  /\ dl' = [dl EXCEPT ![d].pc = "cleanup"]
  /\ UNCHANGED <<dep, s3, job, cleanupJobs>>
  /\ UNCHANGED <<maintVars, execVars, partVars>>

\* the handler's outer catch
GeneralUnknown(id) == Response(500, "general_unknown", "Failed to delete runtime " \o id)

DeleteServiceThrows(d) ==
  /\ dl[d].pc = "delsvc"
  /\ svc[dl[d].id]
  /\ dl' = [dl EXCEPT ![d].pc = "done", ![d].svcFailed = TRUE,
                      ![d].resp = GeneralUnknown(dl[d].id)]
  /\ UNCHANGED <<dep, svc, s3, job, cleanupJobs, cr>>
  /\ UNCHANGED <<maintVars, execVars, partVars>>

\* deleteNamespacedService fails for another reason: ignored as well
DeleteServiceFails(d) ==
  /\ dl[d].pc = "delsvc"
  /\ svc[dl[d].id]
  /\ dl' = [dl EXCEPT ![d].pc = "cleanup", ![d].svcFailed = TRUE]
  /\ UNCHANGED <<dep, svc, s3, job, cleanupJobs, cr>>
  /\ UNCHANGED <<maintVars, execVars, partVars>>

\* createNamespacedJob(cleanupJob), then the response
DeleteCleanupJob(d) ==
  /\ dl[d].pc = "cleanup"
  /\ cleanupJobs' = [cleanupJobs EXCEPT ![dl[d].id] = @ + 1]
  /\ dl' = [dl EXCEPT ![d].pc = "done", ![d].resp = Deleted(dl[d].id)]
  /\ UNCHANGED <<dep, svc, s3, job, cr>>
  /\ UNCHANGED <<maintVars, execVars, partVars>>

\* createNamespacedJob fails: ignored
DeleteCleanupJobFails(d) ==
  /\ dl[d].pc = "cleanup"
  /\ dl' = [dl EXCEPT ![d].pc = "done", ![d].resp = Deleted(dl[d].id),
                      ![d].jobFailed = TRUE]
  /\ UNCHANGED <<dep, svc, s3, job, cleanupJobs, cr>>
  /\ UNCHANGED <<maintVars, execVars, partVars>>

\* the cleanup Job runs `aws s3 rm s3://$S3_BUCKET/$RUNTIME_ID/ --recursive`
CleanupRun(id) ==
  /\ cleanupJobs[id] > 0
  /\ cleanupJobs' = [cleanupJobs EXCEPT ![id] = @ - 1]
  /\ s3' = [k \in Keys |-> IF k \in KeysOf(id) THEN 0 ELSE s3[k]]
  /\ UNCHANGED <<dep, svc, job, cr, dl>>
  /\ UNCHANGED <<maintVars, execVars, partVars>>

(***************************************************************************)
(* Specification of the lifecycle: two create requests and one delete       *)
(***************************************************************************)
Next ==
  \/ \E p \in Creators :
       \/ CreateStart(p)
       \/ CreateCheckExists(p)
       \/ CreateConflict(p)
       \/ CreateGetObject(p)
       \/ CreateJob(p)
       \/ JobSucceed(p)
       \/ JobFail(p)
       \/ CreatePoll(p)
       \/ CreatePollFails(p)
       \/ CreatePollTimeout(p)
       \/ CreateReadService(p)
       \/ CreateService(p)
       \/ CreateReadDeployment(p)
       \/ CreateDeployment(p)
       \/ ReplaceDeployment(p)
       \/ CreateStamp(p)
       \/ CreateStampFails(p)
       \/ CreateHeadObject(p)
       \/ CreateRemoveDeployment(p)
       \/ CreateRemoveService(p)
  \/ \E d \in Deleters :
       \/ DeleteStart(d)
       \/ DeleteDeployment(d)
       \/ DeleteService(d)
       \/ DeleteServiceFails(d)
       \/ DeleteCleanupJob(d)
       \/ DeleteCleanupJobFails(d)
  \/ \E id \in RequestIds : CleanupRun(id)

Spec == Init /\ [][Next]_vars

(***************************************************************************)
(* Properties of the lifecycle                                             *)
(***************************************************************************)
Done(p) == cr[p].pc = "done"

\* the runtime as a successful create leaves it
RuntimeUp(id) ==
  /\ dep[id].exists
  /\ svc[id]
  /\ dep[id].replicas = 0
  /\ dep[id].initialised = 1
  /\ dep[id].status = "Up"

\* C1: of two create requests for one runtime id that meet no build or store
\* failure, exactly one answers 201 and the other answers 409 runtime_conflict,
\* whatever the interleaving of their cluster calls.
C1_ExactlyOneCreated ==
  \A p, q \in Creators :
    ( /\ p # q /\ Done(p) /\ Done(q) /\ cr[p].id = cr[q].id
      /\ ~cr[p].fault /\ ~cr[q].fault /\ ~cr[p].remove /\ ~cr[q].remove
      /\ \A d \in Deleters : dl[d].pc = "idle" )
    => \/ cr[p].resp.code = 201 /\ cr[q].resp.code = 409
          /\ cr[q].resp.type = "runtime_conflict"
       \/ cr[q].resp.code = 201 /\ cr[p].resp.code = 409
          /\ cr[p].resp.type = "runtime_conflict"

\* C2: a create request whose existence check found the Deployment answers 409
\* runtime_conflict, with the "already being created" message when the status it
\* read is pending and "Runtime already exists" otherwise, and has issued no
\* create, replace, patch or delete.
C2_ConflictLeavesCluster ==
  \A p \in Creators :
    cr[p].sawDeployment =>
      /\ cr[p].writes = 0
      /\ Done(p) =>
           /\ cr[p].resp.code = 409
           /\ cr[p].resp.type = "runtime_conflict"
           /\ cr[p].resp.message =
                IF cr[p].sawStatus = "pending" THEN MsgBeingCreated ELSE MsgAlreadyExists

C2_Witness ==
  \E p \in Creators : Done(p) /\ cr[p].sawDeployment /\ cr[p].sawStatus = "pending"

\* C3 as stated: at the moment a create with remove == false answers 201, the
\* Deployment and the Service exist, replicas == 0, initialised == 1, status Up.
C3_UpAtReturn ==
  [][\A p \in Creators :
       (~Done(p) /\ Done(p)' /\ cr'[p].resp.code = 201 /\ ~cr[p].remove)
         => RuntimeUp(cr[p].id)']_vars

\* C3 amended: a create with remove == false that answered 201, when no other
\* request changed dep-{id} or svc-{id} since its existence check, leaves the
\* Deployment and the Service present with replicas == 0, initialised == 1 and
\* status Up.
C3_UpWhenUntouched ==
  \A p \in Creators :
    (Done(p) /\ cr[p].resp.code = 201 /\ ~cr[p].remove /\ ~cr[p].touched)
      => RuntimeUp(cr[p].id)

C3_Witness ==
  \E p \in Creators :
    Done(p) /\ cr[p].resp.code = 201 /\ ~cr[p].remove /\ ~cr[p].touched /\ cr[p].command

CreateRunning(id) == \E p \in Creators : InFlight(p) /\ cr[p].id = id

C5_ArtifactPresent ==
  \A id \in Ids :
    (dep[id].exists /\ dep[id].initialised = 1 /\ dep[id].artifactPath # NoKey)
      => s3[dep[id].artifactPath] > 0

\* C6: a create with command, source and destination whose build Job succeeded
\* and that answers 201 reports path == destination and the size of the artifact
\* the build uploaded.
C6_BuiltPathAndSize ==
  \A p \in Creators :
    ( /\ Done(p) /\ cr[p].resp.code = 201
      /\ cr[p].command /\ cr[p].source /\ cr[p].destination
      /\ job[p].state = "succeeded" )
    => /\ cr[p].resp.path = DstKey(cr[p].id)
       /\ cr[p].resp.size = cr[p].uploaded
       /\ cr[p].uploaded > 0

(***************************************************************************)
(* maintenance/loop.ts                                                     *)
(***************************************************************************)
LeaseValid(l, now) == l.exists /\ now - l.renewTime <= LEASE_DURATION

LeaseExpiredAtDuration(now, l) == now - l.renewTime >= LEASE_DURATION

\* now.getTime() - renewTime.getTime() > leaseDurationSeconds * 1000
LeaseExpired(now, l) == now - l.renewTime > LEASE_DURATION

Forget(m) == [m EXCEPT !.result = "none", !.concurrent = FALSE, !.held = "",
                       !.threw = FALSE]

\* isRunning = false; maintenanceTimeoutId = null
ExitLoop(m) ==
  [m EXCEPT !.isRunning = FALSE, !.maintenanceTimeoutId = FALSE, !.pc = "stopped",
            !.now = 0, !.leaseBody = NoLease, !.items = <<>>, !.i = 0,
            !.seen = NoLease, !.listed = 0, !.patched = {}, !.active = @ - 1]

\* the executor of the sleep promise: setTimeout(resolve, MAINTENANCE_INTERVAL),
\* maintenanceTimeoutId = timeoutId, and the check of shutdownRequested
CancellableSleep(m) ==
  IF m.shutdownRequested
    THEN ExitLoop([m EXCEPT !.timer = "cleared", !.maintenanceTimeoutId = TRUE])
    ELSE [m EXCEPT !.timer = "armed", !.maintenanceTimeoutId = TRUE, !.pc = "sleep",
                   !.now = 0, !.leaseBody = NoLease, !.items = <<>>, !.i = 0,
                   !.seen = NoLease, !.listed = 0, !.patched = {}]

\* while (!shutdownRequested) { await new Promise(...) ... }
WhileTop(m) == IF m.shutdownRequested THEN ExitLoop(m) ELSE CancellableSleep(m)

MaxStarts == 2

\* runMaintenanceLoop without its isRunning guard
RunUnguarded(m) ==
  WhileTop(Forget([m EXCEPT !.isRunning = TRUE, !.shutdownRequested = FALSE,
                            !.starts = @ + 1, !.active = @ + 1]))

runMaintenanceLoop(m) ==
  IF m.isRunning
    THEN m
    ELSE WhileTop(Forget([m EXCEPT !.isRunning = TRUE, !.shutdownRequested = FALSE,
                                   !.starts = @ + 1, !.active = @ + 1]))

RunMaintenanceLoop(r) ==
  /\ mt[r].starts < MaxStarts
  /\ mt' = [mt EXCEPT ![r] = runMaintenanceLoop(mt[r])]
  /\ UNCHANGED <<dep, clock, lease, inv>>
  /\ UNCHANGED <<lifeVars, execVars, partVars>>

\* shutdownRequested = true; clearTimeout(maintenanceTimeoutId); the promise of
\* the sleep is left unresolved
StopIgnored(m) == m

stopMaintenanceLoop(m) ==
  IF ~m.isRunning
    THEN m
    ELSE [m EXCEPT !.shutdownRequested = TRUE,
                   !.timer = IF m.maintenanceTimeoutId /\ @ = "armed"
                               THEN "cleared" ELSE @,
                   !.maintenanceTimeoutId = FALSE]

StopMaintenanceLoop(r) ==
  /\ mt[r].isRunning
  /\ mt' = [mt EXCEPT ![r] = stopMaintenanceLoop(mt[r])]
  /\ UNCHANGED <<dep, clock, lease, inv>>
  /\ UNCHANGED <<lifeVars, execVars, partVars>>

InAcquire(m) == m.pc \in {"acq_read", "acq_create", "acq_replace"}

\* history: replica r enters acquireLease(); the calls of other replicas that
\* are in flight overlap it
EnterAcquire(r) ==
  [q \in Replicas |->
     IF q = r
       THEN [mt[r] EXCEPT !.timer = "fired", !.pc = "acq_read", !.now = clock,
               !.result = "none", !.threw = FALSE,
               !.concurrent = (\E o \in Replicas \ {r} : InAcquire(mt[o])),
               !.held = IF LeaseValid(lease, clock) THEN lease.holderIdentity ELSE ""]
       ELSE [mt[q] EXCEPT !.concurrent = @ \/ InAcquire(mt[q])]]

\* the timer fires and resolves the sleep; the loop goes on to acquireLease(),
\* which takes `now` and sends the read of the Lease
LoopWake(r) ==
  /\ mt[r].pc = "sleep"
  /\ mt[r].timer = "armed"
  /\ IF mt[r].shutdownRequested
       THEN mt' = [mt EXCEPT ![r] = ExitLoop(Forget([mt[r] EXCEPT !.timer = "fired"]))]
       ELSE mt' = EnterAcquire(r)
  /\ UNCHANGED <<dep, clock, lease, inv>>
  /\ UNCHANGED <<lifeVars, execVars, partVars>>

\* acquireLease() returned false: `continue`
SkipCycle(m) == WhileTop([m EXCEPT !.result = "false"])

\* acquireLease() returned true: listNamespacedDeployment is sent
StartCycle(m) ==
  [m EXCEPT !.result = "true", !.pc = "list", !.leaseBody = NoLease, !.seen = NoLease]

\* a catch that goes on as if the Lease had been written
ThrownIgnored(m) == StartCycle([m EXCEPT !.threw = TRUE])

\* a call of acquireLease() threw: caught, and acquireLease() returns false
Thrown(m) == SkipCycle([m EXCEPT !.threw = TRUE])

\* the Lease as read: 404, held by this replica, expired, or held by another
AcquireRead(r) ==
  /\ mt[r].pc = "acq_read"
  /\ LET m == mt[r] IN
       mt' = [mt EXCEPT ![r] =
         IF ~lease.exists
           THEN [m EXCEPT !.pc = "acq_create", !.seen = lease,
                   !.leaseBody = [exists |-> TRUE, holderIdentity |-> r,
                                  acquireTime |-> m.now, renewTime |-> m.now]]
         ELSE IF lease.holderIdentity = r
           THEN [m EXCEPT !.pc = "acq_replace", !.seen = lease,
                   !.leaseBody = [lease EXCEPT !.renewTime = clock]]
         ELSE IF LeaseExpired(m.now, lease)
           THEN [m EXCEPT !.pc = "acq_replace", !.seen = lease,
                   !.leaseBody = [lease EXCEPT !.holderIdentity = r,
                                    !.acquireTime = clock, !.renewTime = clock]]
         ELSE SkipCycle(m)]
  /\ UNCHANGED <<dep, clock, lease, inv>>
  /\ UNCHANGED <<lifeVars, execVars, partVars>>

\* history: the Lease was written by replica r; a call in flight no longer sees
\* one holder throughout unless the holder and its validity are kept
LeaseWritten(r, l) ==
  [q \in Replicas |->
     IF q = r THEN StartCycle(mt[r])
     ELSE IF InAcquire(mt[q]) /\ mt[q].held # l.holderIdentity
       THEN [mt[q] EXCEPT !.held = ""]
     ELSE mt[q]]

\* createNamespacedLease; a 409 is caught and acquireLease() returns false
AcquireCreate(r) ==
  /\ mt[r].pc = "acq_create"
  /\ IF lease.exists
       THEN /\ mt' = [mt EXCEPT ![r] = Thrown(mt[r])]
            /\ UNCHANGED lease
       ELSE /\ lease' = mt[r].leaseBody
            /\ mt' = LeaseWritten(r, mt[r].leaseBody)
  /\ UNCHANGED <<dep, clock, inv>>
  /\ UNCHANGED <<lifeVars, execVars, partVars>>

\* replaceNamespacedLease with a body that carries no resourceVersion
AcquireReplace(r) ==
  /\ mt[r].pc = "acq_replace"
  /\ IF ~lease.exists
       THEN /\ mt' = [mt EXCEPT ![r] = Thrown(mt[r])]
            /\ UNCHANGED lease
       ELSE /\ lease' = mt[r].leaseBody
            /\ mt' = LeaseWritten(r, mt[r].leaseBody)
  /\ UNCHANGED <<dep, clock, inv>>
  /\ UNCHANGED <<lifeVars, execVars, partVars>>

IdSeq == <<"r1", "r2">>

\* listNamespacedDeployment(labelSelector: 'appwrite.io/role=runtime')
ListedDeployments ==
  LET item(n) == [id |-> IdSeq[n], replicas |-> dep[IdSeq[n]].replicas,
                  lastExec |-> dep[IdSeq[n]].lastExec]
      all == [n \in 1..Len(IdSeq) |-> item(n)] IN
  SelectSeq(all, LAMBDA it : dep[it.id].exists)

\* lastExecutionTimeStr ? parseInt(lastExecutionTimeStr, 10) : 0
LastExecutionTime(lastExec) == IF lastExec = NoAnnotation THEN 0 ELSE lastExec

\* the test of the idle time without the test of replicas
InactiveAnyReplicas(it, now) ==
  now - LastExecutionTime(it.lastExec) > INACTIVE_THRESHOLD

\* dep.spec.replicas === 1 and now - lastExecutionTime > INACTIVE_THRESHOLD
Inactive(it, now) ==
  it.replicas = 1 /\ now - LastExecutionTime(it.lastExec) > INACTIVE_THRESHOLD

\* a for loop without the check of shutdownRequested
IterateUnchecked(m, i) ==
  LET todo == {j \in i..Len(m.items) : Inactive(m.items[j], clock)} IN
  IF todo = {}
    THEN WhileTop(m)
    ELSE [m EXCEPT !.pc = "patch", !.i = CHOOSE j \in todo : \A k \in todo : j <= k]

\* a for loop that ends after its first patch
IterateFirstOnly(m, i) ==
  LET todo == {j \in i..Len(m.items) : Inactive(m.items[j], clock)} IN
  IF m.shutdownRequested \/ todo = {} \/ i > 1
    THEN WhileTop(m)
    ELSE [m EXCEPT !.pc = "patch", !.i = CHOOSE j \in todo : \A k \in todo : j <= k]

\* the for loop from item i up to its next await: the patch of the first
\* inactive item, or the end of the cycle
Iterate(m, i) ==
  LET todo == {j \in i..Len(m.items) : Inactive(m.items[j], clock)} IN
  IF m.shutdownRequested \/ todo = {}
    THEN WhileTop(m)
    ELSE [m EXCEPT !.pc = "patch", !.i = CHOOSE j \in todo : \A k \in todo : j <= k]

ListAndIterate(r) ==
  /\ mt[r].pc = "list"
  /\ mt' = [mt EXCEPT ![r] = Iterate(Forget([mt[r] EXCEPT !.items = ListedDeployments,
                                                         !.listed = clock]), 1)]
  /\ UNCHANGED <<dep, clock, lease, inv>>
  /\ UNCHANGED <<lifeVars, execVars, partVars>>

\* patchNamespacedDeployment(replace /spec/replicas 0); a failure is thrown to
\* the catch around the whole for loop
PatchReplicas(r) ==
  /\ mt[r].pc = "patch"
  /\ LET target == mt[r].items[mt[r].i].id IN
       IF dep[target].exists
         THEN /\ dep' = [dep EXCEPT ![target].replicas = 0]
              /\ mt' = [mt EXCEPT ![r] =
                         Iterate([mt[r] EXCEPT !.patched = @ \cup {target}], mt[r].i + 1)]
         ELSE /\ mt' = [mt EXCEPT ![r] = WhileTop(mt[r])]
              /\ UNCHANGED dep
  /\ UNCHANGED <<clock, lease, inv>>
  /\ UNCHANGED <<lifeVars, execVars, partVars>>

\* patchNamespacedDeployment is answered with an error, or not at all: thrown to
\* the catch around the whole for loop, which ends the cycle
PatchReplicasFails(r) ==
  /\ mt[r].pc = "patch"
  /\ mt' = [mt EXCEPT ![r] = WhileTop(mt[r])]
  /\ UNCHANGED <<dep, clock, lease, inv>>
  /\ UNCHANGED <<lifeVars, execVars, partVars>>

\* the read, the create or the replace of the Lease is answered with an error:
\* caught, and acquireLease() returns false
AcquireFails(r) ==
  /\ InAcquire(mt[r])
  /\ mt' = [mt EXCEPT ![r] = Thrown(mt[r])]
  /\ UNCHANGED <<dep, clock, lease, inv>>
  /\ UNCHANGED <<lifeVars, execVars, partVars>>

\* time passes; a Lease that expires during a call of acquireLease() is noted
Tick ==
  /\ clock + TickStep <= MaxClock
  /\ clock' = clock + TickStep
  /\ mt' = [r \in Replicas |->
              IF InAcquire(mt[r]) /\ ~LeaseValid(lease, clock')
                THEN [mt[r] EXCEPT !.held = ""]
                ELSE mt[r]]
  /\ UNCHANGED <<dep, lease, inv>>
  /\ UNCHANGED <<lifeVars, execVars, partVars>>

(***************************************************************************)
(* POST /v1/runtimes/:runtimeId/executions, as far as the reaper sees it   *)
(***************************************************************************)
\* readNamespacedDeployment of a runtime that exists and is not pending
InvokeReadDeployment(i) ==
  /\ inv[i].pc = "idle"
  /\ \E id \in RequestIds :
       /\ dep[id].exists /\ dep[id].status # "pending"
       /\ inv' = [inv EXCEPT ![i] =
                    [pc |-> IF dep[id].replicas = 0 THEN "scale" ELSE "proxy", id |-> id,
                     cold |-> FALSE]]
  /\ UNCHANGED <<dep, clock, lease, mt>>
  /\ UNCHANGED <<lifeVars, execVars, partVars>>

\* patchNamespacedDeployment(replace /spec/replicas 1)
InvokeScaleUp(i) ==
  /\ inv[i].pc = "scale"
  /\ dep[inv[i].id].exists
  /\ dep' = [dep EXCEPT ![inv[i].id].replicas = 1]
  /\ inv' = [inv EXCEPT ![i].pc = "proxy", ![i].cold = TRUE]
  /\ UNCHANGED <<clock, lease, mt>>
  /\ UNCHANGED <<lifeVars, execVars, partVars>>

\* the pod becomes ready and answers the proxied request
InvokeProxy(i) ==
  /\ inv[i].pc = "proxy"
  /\ inv' = [inv EXCEPT ![i].pc = "stamp"]
  /\ UNCHANGED <<dep, clock, lease, mt>>
  /\ UNCHANGED <<lifeVars, execVars, partVars>>

\* JSON patch `replace` of an annotation: the path must exist (RFC 6902)
ReplaceLastExecution(d, now) ==
  IF d.exists /\ d.lastExec # NoAnnotation THEN [d EXCEPT !.lastExec = now] ELSE d

\* the last-execution-time patch, its error swallowed
InvokeStamp(i) ==
  /\ inv[i].pc = "stamp"
  /\ dep' = [dep EXCEPT ![inv[i].id] = ReplaceLastExecution(@, clock)]
  /\ inv' = [inv EXCEPT ![i] = IdleInvoke]
  /\ UNCHANGED <<clock, lease, mt>>
  /\ UNCHANGED <<lifeVars, execVars, partVars>>

(***************************************************************************)
(* Specification of the maintenance loops of two replicas                  *)
(***************************************************************************)
RunningDeployment(lastExec) ==
  [exists |-> TRUE, status |-> "Up", initialised |-> 1, listening |-> 1,
   replicas |-> 1, lastExec |-> lastExec, artifactPath |-> NoKey, secret |-> "c1"]

\* Runtimes that exist when the loops start, all scaled up: r1 as the create
\* handler and an invocation leave it, or carrying a last-execution-time
\* annotation as in the scenario "Reap idle"; r2 without the annotation.  The
\* Lease is absent, or held by the other replica, fresh or expired.
MaintInit ==
  /\ \E lastExec \in {NoAnnotation, 0} :
       dep = [id \in Ids |-> IF id \in RequestIds THEN RunningDeployment(lastExec)
                             ELSE RunningDeployment(NoAnnotation)]
  /\ svc = [id \in Ids |-> dep[id].exists]
  /\ s3 = [k \in Keys |-> 0]
  /\ job = [p \in Creators |-> NoJob]
  /\ cleanupJobs = [id \in Ids |-> 0]
  /\ cr = [p \in Creators |-> IdleCreate]
  /\ dl = [d \in Deleters |-> IdleDelete]
  /\ clock = StartClock
  /\ \E l \in {NoLease,
               [exists |-> TRUE, holderIdentity |-> OtherReplica,
                acquireTime |-> StartClock, renewTime |-> StartClock],
               [exists |-> TRUE, holderIdentity |-> OtherReplica,
                acquireTime |-> 0, renewTime |-> 0]} : lease = l
  /\ mt = [r \in Replicas |-> StoppedLoop]
  /\ inv = [i \in Invokers |-> IdleInvoke]
  /\ ExecIdle
  /\ PartsIdle

MaintNext ==
  \/ \E r \in Replicas :
       \/ RunMaintenanceLoop(r)
       \/ LoopWake(r)
       \/ AcquireRead(r)
       \/ AcquireCreate(r)
       \/ AcquireReplace(r)
       \/ ListAndIterate(r)
       \/ PatchReplicas(r)
  \/ \E i \in Invokers :
       \/ InvokeReadDeployment(i)
       \/ InvokeScaleUp(i)
       \/ InvokeProxy(i)
       \/ InvokeStamp(i)
  \/ Tick

MaintSpec == MaintInit /\ [][MaintNext]_vars

(***************************************************************************)
(* Specification of one replica's loop with its start and stop             *)
(***************************************************************************)
LoopStep(r) ==
  \/ LoopWake(r)
  \/ AcquireRead(r)
  \/ AcquireCreate(r)
  \/ AcquireReplace(r)
  \/ ListAndIterate(r)
  \/ PatchReplicas(r)

LoopNext ==
  \/ RunMaintenanceLoop("a")
  \/ StopMaintenanceLoop("a")
  \/ LoopStep("a")
  \/ Tick

LoopSpec == MaintInit /\ [][LoopNext]_vars

\* timers that are armed fire and the calls to the API server return
LoopFairSpec == LoopSpec /\ WF_vars(LoopStep("a"))

(***************************************************************************)
(* Specification of one replica's loop with invocations, failing calls of  *)
(* the API server, and its stop                                            *)
(***************************************************************************)
ReapNext ==
  \/ RunMaintenanceLoop("a")
  \/ StopMaintenanceLoop("a")
  \/ LoopStep("a")
  \/ AcquireFails("a")
  \/ PatchReplicasFails("a")
  \/ \E i \in Invokers :
       \/ InvokeReadDeployment(i)
       \/ InvokeScaleUp(i)
       \/ InvokeProxy(i)
       \/ InvokeStamp(i)
  \/ Tick

ReapSpec == MaintInit /\ [][ReapNext]_vars

(***************************************************************************)
(* Properties of the maintenance loop                                      *)
(***************************************************************************)
\* replica r's scale-down patch reaches the API server in this step
PatchIssued(r) ==
  /\ mt[r].pc = "patch"
  /\ mt'[r].pc # "patch" \/ mt'[r].i # mt[r].i

PatchTarget(r) == mt[r].items[mt[r].i].id

Returned(m) == m.result # "none"

\* both replicas have returned from calls of acquireLease() that overlapped,
\* and one holder held the Lease, unexpired, throughout both calls
ConcurrentUnderHolder ==
  \A r \in Replicas : mt[r].concurrent /\ Returned(mt[r]) /\ mt[r].held # ""

InCycle(m) == m.pc \in {"list", "patch"}

\* C9: at most one replica at a time is inside a maintenance cycle, from its
\* acquireLease() returning true until its iteration over the Deployments ends.
C9_OneCycleAtATime == Cardinality({r \in Replicas : InCycle(mt[r])}) <= 1

\* C10: whenever stopMaintenanceLoop() is called while the loop is running, the
\* loop eventually exits and isMaintenanceLoopRunning() becomes false.
C10_StopLeadsToExit ==
  (mt["a"].isRunning /\ mt["a"].shutdownRequested) ~> ~mt["a"].isRunning

(***************************************************************************)
(* The pods of a runtime Deployment                                        *)
(***************************************************************************)
\* The pod template has no readiness probe: the pod counts as ready as soon as
\* its containers run, before the server in it accepts connections on :3000.
PodStart(id) ==
  /\ dep[id].exists /\ dep[id].replicas = 1
  /\ pod[id] = "none"
  /\ pod' = [pod EXCEPT ![id] = "ready"]
  /\ UNCHANGED <<dep, ex, lifeVars, maintVars, partVars>>

PodListen(id) ==
  /\ pod[id] = "ready"
  /\ pod' = [pod EXCEPT ![id] = "listening"]
  /\ UNCHANGED <<dep, ex, lifeVars, maintVars, partVars>>

\* the Deployment is scaled to 0 or deleted: its pod is removed
PodStop(id) ==
  /\ ~dep[id].exists \/ dep[id].replicas = 0
  /\ pod[id] # "none"
  /\ pod' = [pod EXCEPT ![id] = "none"]
  /\ UNCHANGED <<dep, ex, lifeVars, maintVars, partVars>>

\* currentDeployment.status?.readyReplicas
readyReplicas(id) == IF dep[id].exists /\ pod[id] # "none" THEN 1 ELSE 0

(***************************************************************************)
(* POST /v1/runtimes/:runtimeId/executions, every step                     *)
(***************************************************************************)
\* the create request that carries an invocation's loopback call
CreatorOf(e) == "c1"

ExecDone(e) == ex[e].pc = "done"

ErrorResponse(x, code, type, message) ==
  [x EXCEPT !.pc = "done", !.resp = Response(code, type, message)]

\* an exception no try block of the handler catches: the framework answers 500
Uncaught(x, patch) ==
  [x EXCEPT !.pc = "done", !.failedPatch = patch,
            !.resp = Response(500, "", "Internal Server Error")]

\* the body is read; prepareStart = Date.now() / 1000
ExecStart(e) ==
  /\ ex[e].pc \in {"idle", "done"}
  /\ \E id \in RequestIds, image \in BOOLEAN, source \in BOOLEAN :
       ex' = [ex EXCEPT ![e] = [IdleExec EXCEPT !.pc = "exists", !.id = id,
                                  !.image = image, !.source = source,
                                  !.start = clock]]
  /\ UNCHANGED <<dep, pod, lifeVars, maintVars, partVars>>

\* the body of the loopback POST /v1/runtimes: runtimeId, image, source and no
\* command, destination or remove
LoopbackCreate(id) ==
  [IdleCreate EXCEPT !.pc = "exists", !.id = id, !.source = TRUE]

\* if (!(await runtimeExists(runtimeId))): 404 without image or source, else the
\* create endpoint is called; image and source are not read after this block
ExecCheckExists(e) ==
  /\ ex[e].pc = "exists"
  /\ IF runtimeExists(ex[e].id)
       THEN /\ ex' = [ex EXCEPT ![e].pc = "upd", ![e].image = FALSE, ![e].source = FALSE]
            /\ UNCHANGED cr
       ELSE IF ~ex[e].image \/ ~ex[e].source
         THEN /\ ex' = [ex EXCEPT ![e] =
                          ErrorResponse([ex[e] EXCEPT !.missing = TRUE], 404, "runtime_not_found",
                            "Runtime not found. Please start it first or provide runtime-related parameters.")]
              /\ UNCHANGED cr
         ELSE /\ cr[CreatorOf(e)].pc \in {"idle", "done"}
              /\ ex' = [ex EXCEPT ![e].pc = "create", ![e].missing = TRUE]
              /\ cr' = [cr EXCEPT ![CreatorOf(e)] = LoopbackCreate(ex[e].id)]
  /\ UNCHANGED <<dep, pod, svc, s3, job, cleanupJobs, dl, maintVars, partVars>>

CreateAnswerIgnored(x, r) == [x EXCEPT !.pc = "ready1", !.created = (r.code = 201)]

\* if (!createResponse.ok) return c.json(errorData, createResponse.status)
CreateAnswer(x, r) ==
  IF r.code = 201 THEN [x EXCEPT !.pc = "ready1", !.created = TRUE]
  ELSE [x EXCEPT !.pc = "done", !.resp = r]

\* the create endpoint has answered the loopback call
ExecCreateAnswered(e) ==
  /\ ex[e].pc = "create"
  /\ cr[CreatorOf(e)].pc = "done"
  /\ ex' = [ex EXCEPT ![e] = CreateAnswer(ex[e], cr[CreatorOf(e)].resp)]
  /\ UNCHANGED <<dep, pod, lifeVars, maintVars, partVars>>

\* status.status !== 'pending' without the test of status
NotPendingOrNull(id) ==
  LET status == getRuntimeStatus(id) IN status = Null \/ status.status # "pending"

\* status && status.status !== 'pending'
NotPending(id) ==
  LET status == getRuntimeStatus(id) IN status # Null /\ status.status # "pending"

\* waitForRuntimeReady: a poll that finds the runtime not pending
ExecWaitReady(e) ==
  /\ ex[e].pc \in {"ready1", "ready2"}
  /\ NotPending(ex[e].id)
  /\ ex' = [ex EXCEPT ![e].pc = IF ex[e].pc = "ready1" THEN "upd" ELSE "status"]
  /\ UNCHANGED <<dep, pod, lifeVars, maintVars, partVars>>

\* waitForRuntimeReady throws after the timeout
ExecWaitReadyTimeout(e) ==
  /\ ex[e].pc \in {"ready1", "ready2"}
  /\ ~NotPending(ex[e].id)
  /\ ex' = [ex EXCEPT ![e] = ErrorResponse(ex[e], 500, "runtime_timeout",
                               "Runtime failed to become ready in time")]
  /\ UNCHANGED <<dep, pod, lifeVars, maintVars, partVars>>

\* await updateRuntimeStatus(runtimeId, {updated}), outside any try block, before
\* the call and after it
ExecUpdated(e) ==
  /\ ex[e].pc \in {"upd", "upd2"}
  /\ ex' = [ex EXCEPT ![e] =
              IF ~dep[ex[e].id].exists THEN Uncaught(ex[e], "updated")
              ELSE IF ex[e].pc = "upd" THEN [ex[e] EXCEPT !.pc = "ready2"]
              ELSE [ex[e] EXCEPT !.pc = "done", !.resp = Response(200, "", "")]]
  /\ UNCHANGED <<dep, pod, lifeVars, maintVars, partVars>>

\* const status = await getRuntimeStatus(runtimeId)
ExecGetStatus(e) ==
  /\ ex[e].pc = "status"
  /\ LET status == getRuntimeStatus(ex[e].id) IN
       ex' = [ex EXCEPT ![e] =
                IF status = Null
                  THEN ErrorResponse(ex[e], 404, "runtime_not_found", "Runtime not found")
                  ELSE [ex[e] EXCEPT !.pc = "rddep", !.listening = status.listening]]
  /\ UNCHANGED <<dep, pod, lifeVars, maintVars, partVars>>

\* readNamespacedDeployment: the secret, and spec.replicas || 0
ExecReadDeployment(e) ==
  /\ ex[e].pc = "rddep"
  /\ LET d == dep[ex[e].id] IN
       ex' = [ex EXCEPT ![e] =
                IF ~d.exists THEN Uncaught(ex[e], "")
                ELSE IF d.secret = ""
                  THEN ErrorResponse(ex[e], 500, "runtime_not_found",
                         "Runtime secret not found. Please re-create the runtime.")
                ELSE [ex[e] EXCEPT !.pc = IF d.replicas = 0 THEN "scale" ELSE "waitready"]]
  /\ UNCHANGED <<dep, pod, lifeVars, maintVars, partVars>>

\* patchNamespacedDeployment(replace /spec/replicas 1)
ExecScaleUp(e) ==
  /\ ex[e].pc = "scale"
  /\ IF dep[ex[e].id].exists
       THEN /\ dep' = [dep EXCEPT ![ex[e].id].replicas = 1]
            /\ ex' = [ex EXCEPT ![e].pc = "waitready", ![e].cold = TRUE]
       ELSE /\ ex' = [ex EXCEPT ![e] = Uncaught(ex[e], "")]
            /\ UNCHANGED dep
  /\ UNCHANGED <<pod, lifeVars, maintVars, partVars>>

\* the readiness loop: a read that finds readyReplicas === 1, or throws
ExecSeeReady(e) ==
  /\ ex[e].pc = "waitready"
  /\ ~dep[ex[e].id].exists \/ readyReplicas(ex[e].id) = 1
  /\ ex' = [ex EXCEPT ![e] =
              IF ~dep[ex[e].id].exists THEN Uncaught(ex[e], "")
              ELSE [ex[e] EXCEPT !.pc = "pods", !.sawReady = TRUE]]
  /\ UNCHANGED <<dep, pod, lifeVars, maintVars, partVars>>

\* 60 s without readyReplicas === 1
ExecReadyTimeout(e) ==
  /\ ex[e].pc = "waitready"
  /\ dep[ex[e].id].exists /\ readyReplicas(ex[e].id) = 0
  /\ ex' = [ex EXCEPT ![e] = ErrorResponse(ex[e], 504, "runtime_timeout",
                               "Runtime failed to become ready in time")]
  /\ UNCHANGED <<dep, pod, lifeVars, maintVars, partVars>>


\* if (status.listening === 0) checkPodListening(...)
AfterPodList(x) == IF x.listening = 0 THEN "probe" ELSE "proxy"

\* listNamespacedPod: items[0] and its podIP
ExecListPods(e) ==
  /\ ex[e].pc = "pods"
  /\ ex' = [ex EXCEPT ![e] =
              IF pod[ex[e].id] = "none"
                THEN ErrorResponse(ex[e], 500, "runtime_not_found",
                       "Could not find a pod for this runtime")
                ELSE [ex[e] EXCEPT !.pc = AfterPodList(ex[e])]]
  /\ UNCHANGED <<dep, pod, lifeVars, maintVars, partVars>>

\* checkPodListening: a GET to podIP:3000 is answered
ExecProbe(e) ==
  /\ ex[e].pc = "probe"
  /\ pod[ex[e].id] = "listening"
  /\ ex' = [ex EXCEPT ![e].pc = "setlisten", ![e].probed = TRUE]
  /\ UNCHANGED <<dep, pod, lifeVars, maintVars, partVars>>

\* checkPodListening returns false after the timeout
ExecProbeTimeout(e) ==
  /\ ex[e].pc = "probe"
  /\ pod[ex[e].id] # "listening"
  /\ ex' = [ex EXCEPT ![e] = ErrorResponse(ex[e], 500, "runtime_timeout",
                               "Runtime failed to start listening in time")]
  /\ UNCHANGED <<dep, pod, lifeVars, maintVars, partVars>>

\* await updateRuntimeStatus(runtimeId, {listening: 1}), outside any try block
ExecSetListening(e) ==
  /\ ex[e].pc = "setlisten"
  /\ IF dep[ex[e].id].exists
       THEN /\ dep' = [dep EXCEPT ![ex[e].id].listening = 1]
            /\ ex' = [ex EXCEPT ![e].pc = "proxy"]
       ELSE /\ ex' = [ex EXCEPT ![e] = Uncaught(ex[e], "listening")]
            /\ UNCHANGED dep
  /\ UNCHANGED <<pod, lifeVars, maintVars, partVars>>

\* fetch(executionUrl): the in-pod server answers, or the fetch throws
ExecProxy(e) ==
  /\ ex[e].pc = "proxy"
  /\ ex' = [ex EXCEPT ![e] =
              IF pod[ex[e].id] = "listening"
                THEN [ex[e] EXCEPT !.pc = "stamp", !.got = TRUE]
                ELSE ErrorResponse(ex[e], 500, "execution_timeout",
                       "Execution request failed")]
  /\ UNCHANGED <<dep, pod, lifeVars, maintVars, partVars>>

\* the last-execution-time patch in its try block
ExecStamp(e) ==
  /\ ex[e].pc = "stamp"
  /\ dep' = [dep EXCEPT ![ex[e].id] = ReplaceLastExecution(@, clock)]
  /\ ex' = [ex EXCEPT ![e].pc = "upd2",
                      ![e].failedPatch = IF dep'[ex[e].id] = dep[ex[e].id]
                                              /\ dep[ex[e].id].lastExec # clock
                                           THEN "last-execution-time" ELSE @]
  /\ UNCHANGED <<pod, lifeVars, maintVars, partVars>>

ExecStep(e) ==
  \/ ExecStart(e)
  \/ ExecCheckExists(e)
  \/ ExecCreateAnswered(e)
  \/ ExecWaitReady(e)
  \/ ExecWaitReadyTimeout(e)
  \/ ExecUpdated(e)
  \/ ExecGetStatus(e)
  \/ ExecReadDeployment(e)
  \/ ExecScaleUp(e)
  \/ ExecSeeReady(e)
  \/ ExecReadyTimeout(e)
  \/ ExecListPods(e)
  \/ ExecProbe(e)
  \/ ExecProbeTimeout(e)
  \/ ExecSetListening(e)
  \/ ExecProxy(e)
  \/ ExecStamp(e)

\* the create handler as the loopback call runs it
LoopbackCreateStep(p) ==
  \/ CreateCheckExists(p)
  \/ CreateReadService(p)
  \/ CreateService(p)
  \/ CreateReadDeployment(p)
  \/ CreateDeployment(p)
  \/ CreateStamp(p)

ExecNext ==
  \/ \E e \in Execs : ExecStep(e)
  \/ LoopbackCreateStep("c1")
  \/ \E id \in RequestIds : PodStart(id) \/ PodListen(id) \/ PodStop(id)
  \/ \E d \in Deleters : DeleteStart(d) \/ DeleteDeployment(d) \/ DeleteService(d)
                           \/ DeleteCleanupJob(d)
  \/ RunMaintenanceLoop("a")
  \/ LoopStep("a")

\* No runtime exists; invocations that carry image and source create it.  The
\* clock stands at a time when a runtime without a last-execution-time counts as
\* inactive.
ExecInit ==
  /\ dep = [id \in Ids |-> NoDeployment]
  /\ svc = [id \in Ids |-> FALSE]
  /\ s3 = [k \in Keys |-> IF k \in {SrcKey(id) : id \in RequestIds} THEN 1 ELSE 0]
  /\ job = [p \in Creators |-> NoJob]
  /\ cleanupJobs = [id \in Ids |-> 0]
  /\ cr = [p \in Creators |-> IdleCreate]
  /\ dl = [d \in Deleters |-> IdleDelete]
  /\ clock = MaxClock
  /\ lease = NoLease
  /\ mt = [r \in Replicas |-> StoppedLoop]
  /\ inv = [i \in Invokers |-> IdleInvoke]
  /\ ExecIdle
  /\ PartsIdle

ExecSpec == ExecInit /\ [][ExecNext]_vars

(***************************************************************************)
(* Properties of the invocation                                            *)
(***************************************************************************)
\* the proxied request of invocation e has been sent
ProxySent(e) == ex[e].pc \in {"proxy", "stamp", "upd2"} \/ (ExecDone(e) /\ ex[e].got)

\* C11: an invocation that read replicas == 0 and scaled to 1 sends the proxied
\* request only after it observed readyReplicas == 1 and then a listening probe
\* of the pod succeeded, on every cold start of the runtime.
C11_ColdStartGates ==
  \A e \in Execs :
    (ProxySent(e) /\ ex[e].cold) => (ex[e].sawReady /\ ex[e].probed)

\* C13: after an invocation that the in-pod server answered has returned, while
\* the Deployment (created by the create handler) still exists, its
\* last-execution-time annotation holds a time not before the invocation's start.
C13_LastExecutionStamped ==
  \A e \in Execs :
    (ExecDone(e) /\ ex[e].got /\ dep[ex[e].id].exists)
      => /\ dep[ex[e].id].lastExec # NoAnnotation
         /\ dep[ex[e].id].lastExec >= ex[e].start

\* the steps of the invocation that patch annotations through updateRuntimeStatus
StatusPatchSteps == {"upd", "setlisten", "upd2"}

\* C14: a failure of a Deployment annotation patch is swallowed: the step of an
\* invocation or of a create that patches annotations never ends the request
\* with an error response.
C14_PatchFailureSwallowed ==
  [][/\ \A e \in Execs :
          (ex[e].pc \in StatusPatchSteps /\ ex'[e].pc = "done") => ex'[e].resp.code < 400
     /\ \A p \in Creators :
          (cr[p].pc = "stamp" /\ cr'[p].pc = "done") => cr'[p].resp.code < 400]_vars

\* the loopback create of invocation e has answered with an error
CreateRefused(e) ==
  /\ ex[e].missing /\ ex[e].image /\ ex[e].source /\ ~ex[e].created
  /\ cr[CreatorOf(e)].pc = "done" /\ cr[CreatorOf(e)].resp.code # 201

\* C20: an invocation for a runtime whose Deployment does not exist answers 404
\* runtime_not_found and creates nothing when image or source is missing; with
\* both it is proxied only after the create endpoint created the runtime, and a
\* failed create is answered with the create's body and status, without a proxy.
C20_CreateOnTheFly ==
  /\ [][\A e \in Execs :
          ( /\ ex[e].pc = "exists" /\ ex'[e].pc # "exists"
            /\ ~runtimeExists(ex[e].id) /\ (~ex[e].image \/ ~ex[e].source) )
          => /\ ex'[e].pc = "done"
             /\ ex'[e].resp.code = 404 /\ ex'[e].resp.type = "runtime_not_found"
             /\ UNCHANGED <<dep, svc, job, cr, pod>>]_vars
  /\ [](\A e \in Execs :
          /\ (ex[e].missing /\ ProxySent(e)) => ex[e].created
          /\ (ExecDone(e) /\ CreateRefused(e))
               => (ex[e].resp = cr[CreatorOf(e)].resp /\ ~ex[e].got))

C20_Witness ==
  \E e \in Execs : ExecDone(e) /\ CreateRefused(e) /\ ex[e].resp.code = 500

\* ---------------------------------------------------------------------
\* The response of the in-pod server as the execution handler returns it.
\* A body is a sequence of bytes; text() decodes it as UTF-8 into code
\* points, and the JSON or multipart answer encodes the code points again.
\* Header keys are sequences of their '-' separated segments.

MaxBody == 3

Bytes == {65, 169, 195}

Bodies == UNION {[1..n -> Bytes] : n \in 0..MaxBody}

Statuses == {200, 404, 500}

HeaderKeys == {<<"content", "type">>, <<"x", "custom">>,
               <<"x", "open", "runtimes", "log", "id">>,
               <<"x", "open", "runtimes", "">>}

ReplacementCharacter == 65533

IsContinuation(b) == b >= 128 /\ b <= 191

IsLeadOfTwo(b) == b >= 194 /\ b <= 223

\* Response.text(): UTF-8 decoding in replacement mode, for the one-byte
\* and two-byte forms; any other byte yields U+FFFD and is skipped.
RECURSIVE text(_)
text(bytes) ==
  IF bytes = <<>> THEN <<>>
  ELSE IF Head(bytes) < 128 THEN <<Head(bytes)>> \o text(Tail(bytes))
  ELSE IF /\ IsLeadOfTwo(Head(bytes))
          /\ Len(bytes) >= 2
          /\ IsContinuation(bytes[2])
       THEN <<(Head(bytes) % 32) * 64 + (bytes[2] % 64)>> \o text(Tail(Tail(bytes)))
  ELSE <<ReplacementCharacter>> \o text(Tail(bytes))

\* The UTF-8 encoding of one code point of the basic plane.
EncodeCodePoint(cp) ==
  IF cp < 128 THEN <<cp>>
  ELSE IF cp < 2048 THEN <<192 + (cp \div 64), 128 + (cp % 64)>>
  ELSE <<224 + (cp \div 4096), 128 + ((cp \div 64) % 64), 128 + (cp % 64)>>

RECURSIVE Encode(_)
Encode(str) ==
  IF str = <<>> THEN <<>> ELSE EncodeCodePoint(Head(str)) \o Encode(Tail(str))

\* lowerKey.startsWith('x-open-runtimes-')
IsInternalHeader(key) ==
  /\ Len(key) >= 4
  /\ SubSeq(key, 1, 3) = <<"x", "open", "runtimes">>

responseHeaders(keys) == {k \in keys : ~IsInternalHeader(k)}

NoExecutionData == [statusCode |-> 0, headers |-> {}, body |-> <<>>]

\* fetch(executionUrl) resolved: the in-pod server answered.
PassFetch ==
  /\ pass.pc \in {"none", "returned"}
  /\ \E status \in Statuses, body \in Bodies, keys \in SUBSET HeaderKeys :
       pass' = [pc |-> "answered", status |-> status, body |-> body,
                keys |-> keys, executionData |-> NoExecutionData]
  /\ UNCHANGED <<dep, lifeVars, maintVars, execVars, tail, proc, auth, req>>

\* The handler extracts the response and answers with executionData.
PassReturn ==
  /\ pass.pc = "answered"
  /\ pass' = [pass EXCEPT
       !.pc = "returned",
       !.executionData = [statusCode |-> pass.status,
                          headers |-> responseHeaders(pass.keys),
                          body |-> text(pass.body)]]
  /\ UNCHANGED <<dep, lifeVars, maintVars, execVars, tail, proc, auth, req>>

PassNext == PassFetch \/ PassReturn

PassSpec == Init /\ [][PassNext]_vars

\* C12: for every invocation that obtains a response from the in-pod
\* server, the returned statusCode and body equal the server's status and
\* body, and no returned header key starts with 'x-open-runtimes-'.
C12_VerbatimResponse ==
  pass.pc = "returned" =>
    /\ pass.executionData.statusCode = pass.status
    /\ Encode(pass.executionData.body) = pass.body
    /\ \A k \in pass.executionData.headers : ~IsInternalHeader(k)

\* ---------------------------------------------------------------------
\* authMiddleware in front of every /v1/runtimes route.  A header value is
\* a sequence of symbols: a space, or a run of characters without space;
\* adjacent runs read as one longer run.

MaxHeader == 4

Space == " "

Symbols == {Space, "Bearer", "Basic", "key"}

HeaderValues == UNION {[1..n -> Symbols] : n \in 0..MaxHeader}

\* process.env.OPR_EXECUTOR_SECRET || '' : set, or unset.
Secrets == {<<"key">>, <<>>}

\* String.prototype.split(' ')
RECURSIVE split(_)
split(str) ==
  IF str = <<>> THEN << <<>> >>
  ELSE LET rest == split(Tail(str))
       IN IF Head(str) = Space
          THEN << <<>> >> \o rest
          ELSE << <<Head(str)>> \o Head(rest) >> \o Tail(rest)

FirstField(fields) == fields[1]

\* authHeader?.split(' ')[1] || ''
SecondField(fields) == IF Len(fields) >= 2 THEN fields[2] ELSE <<>>

secretKey(present, authHeader) ==
  IF present THEN SecondField(split(authHeader)) ELSE <<>>

MissingExecutorKey == [code |-> 401, error |-> "Missing executor key"]

NoAnswer == [code |-> 0, error |-> ""]

\* A request for a /v1/runtimes route arrives.
AuthReceive ==
  /\ auth.pc \in {"none", "done"}
  /\ \E present \in BOOLEAN, authHeader \in HeaderValues, expectedSecret \in Secrets :
       /\ ~present => authHeader = <<>>
       /\ auth' = [pc |-> "middleware", present |-> present,
                   authHeader |-> authHeader, expectedSecret |-> expectedSecret,
                   reached |-> FALSE, resp |-> NoAnswer]
  /\ UNCHANGED <<dep, lifeVars, maintVars, execVars, tail, proc, pass, req>>

authMiddleware ==
  /\ auth.pc = "middleware"
  /\ LET key == secretKey(auth.present, auth.authHeader)
     IN IF key = <<>> \/ key # auth.expectedSecret
        THEN auth' = [auth EXCEPT !.pc = "done", !.resp = MissingExecutorKey]
        ELSE auth' = [auth EXCEPT !.pc = "handler"]
  /\ UNCHANGED <<dep, lifeVars, maintVars, execVars, tail, proc, pass, req>>

\* await next(): the route's handler runs and answers.
AuthHandler ==
  /\ auth.pc = "handler"
  /\ auth' = [auth EXCEPT !.pc = "done", !.reached = TRUE,
                          !.resp = [code |-> 200, error |-> ""]]
  /\ UNCHANGED <<dep, lifeVars, maintVars, execVars, tail, proc, pass, req>>

AuthNext == AuthReceive \/ authMiddleware \/ AuthHandler

AuthSpec == Init /\ [][AuthNext]_vars

Rejected == auth.resp = MissingExecutorKey /\ ~auth.reached

\* The header is exactly "Bearer <secret>".
CarriesBearer ==
  /\ auth.present
  /\ auth.authHeader = <<"Bearer", Space>> \o auth.expectedSecret

\* The header is "<word> <secret>" or "<word> <secret> <anything>", for a
\* configured secret: the secret stands alone between the first space and
\* the next space or the end.
CarriesKeyAsSecondField ==
  /\ auth.present
  /\ auth.expectedSecret # <<>>
  /\ \E n \in 0..Len(auth.authHeader) :
       /\ \A i \in 1..n : auth.authHeader[i] # Space
       /\ Len(auth.authHeader) >= n + 1 + Len(auth.expectedSecret)
       /\ auth.authHeader[n + 1] = Space
       /\ SubSeq(auth.authHeader, n + 2, n + 1 + Len(auth.expectedSecret))
            = auth.expectedSecret
       /\ \/ Len(auth.authHeader) = n + 1 + Len(auth.expectedSecret)
          \/ auth.authHeader[n + 2 + Len(auth.expectedSecret)] = Space

\* C15 as stated: every request whose Authorization header does not carry
\* exactly the configured secret as bearer token is answered 401 "Missing
\* executor key" and reaches no handler.
C15_RejectsAllButBearer ==
  (auth.pc \in {"handler", "done"} /\ ~CarriesBearer) => Rejected

\* C15: every request whose Authorization header is absent, or does not
\* have the configured non-empty secret as its second space-separated
\* field, is answered 401 "Missing executor key" and reaches no handler;
\* the scheme word and any later fields are not examined.
C15_RejectsWithoutKey ==
  (auth.pc \in {"handler", "done"} /\ ~CarriesKeyAsSecondField) => Rejected

C15_Witness ==
  /\ auth.pc = "done"
  /\ Rejected
  /\ auth.present
  /\ auth.expectedSecret = <<"key">>
  /\ auth.authHeader = <<"Bearer", Space, Space, "key">>

\* ---------------------------------------------------------------------
\* C16: delete is best-effort after the Deployment: whenever the delete of
\* the Deployment succeeded, the request answers 200 "deleted", also when
\* the delete of the Service failed or the cleanup Job could not be created.
C16_BestEffortDelete ==
  \A d \in Deleters :
    /\ (dl[d].depDeleted /\ dl[d].pc = "done") => dl[d].resp = Deleted(dl[d].id)
    /\ (dl[d].svcFailed \/ dl[d].jobFailed) => dl[d].depDeleted

C16_Witness ==
  \E d \in Deleters :
    /\ dl[d].pc = "done"
    /\ dl[d].depDeleted
    /\ dl[d].svcFailed
    /\ dl[d].jobFailed
    /\ dl[d].resp.code = 200
    /\ svc[dl[d].id]

\* ---------------------------------------------------------------------
\* tailFileInPod: `tail -F` run in the pod through the exec API, its
\* output handed to onData chunk by chunk, and the handle it returns.

MaxChunks == 5

\* tailFileInPod(...) is called: exec.exec starts `tail -F` in the pod.
TailStart ==
  /\ ~tail.started
  /\ tail' = [tail EXCEPT !.started = TRUE]
  /\ UNCHANGED <<dep, lifeVars, maintVars, execVars, proc, auth, pass, req>>

\* The command in the pod appends to the file that is tailed.
TailAppend ==
  /\ tail.appended < MaxChunks
  /\ tail' = [tail EXCEPT !.appended = @ + 1]
  /\ UNCHANGED <<dep, lifeVars, maintVars, execVars, proc, auth, pass, req>>

\* `tail -F` writes what it read to the exec stream.
TailSend ==
  /\ tail.started
  /\ ~tail.closed
  /\ tail.sent < tail.appended
  /\ tail' = [tail EXCEPT !.sent = @ + 1]
  /\ UNCHANGED <<dep, lifeVars, maintVars, execVars, proc, auth, pass, req>>

\* stdoutStream.write: onData(chunk.toString('utf-8'))
TailWrite ==
  /\ tail.started
  /\ ~tail.closed
  /\ tail.delivered < tail.sent
  /\ tail' = [tail EXCEPT !.delivered = @ + 1,
                          !.afterCancel = IF tail.cancelled THEN @ + 1 ELSE @]
  /\ UNCHANGED <<dep, lifeVars, maintVars, execVars, proc, auth, pass, req>>

\* The returned function: its body is empty.
Cancel(t) == [t EXCEPT !.cancelled = TRUE]

\* The caller calls the handle that tailFileInPod returned.
TailCancel ==
  /\ tail.started
  /\ ~tail.cancelled
  /\ tail' = Cancel(tail)
  /\ UNCHANGED <<dep, lifeVars, maintVars, execVars, proc, auth, pass, req>>

\* The pod is deleted or the connection drops: the stream closes.
TailClose ==
  /\ tail.started
  /\ ~tail.closed
  /\ tail' = [tail EXCEPT !.closed = TRUE]
  /\ UNCHANGED <<dep, lifeVars, maintVars, execVars, proc, auth, pass, req>>

TailNext ==
  \/ TailStart
  \/ TailAppend
  \/ TailSend
  \/ TailWrite
  \/ TailCancel
  \/ TailClose

TailSpec == Init /\ [][TailNext]_vars

\* C17: after the cancel handle returned by tailFile has been called and
\* has returned, onChunk is never invoked again.
C17_NoChunkAfterCancel ==
  [][tail.cancelled => tail'.delivered = tail.delivered]_vars

\* ---------------------------------------------------------------------
\* The process: its entry point, gracefulShutdown and the signal handlers.

Self == "a"

Exit(p, code, by) == [p EXCEPT !.pc = "exited", !.exitCode = code, !.by = by]

\* The entry point: the maintenance loop is started, the signal handlers
\* are registered and the server listens.
Startup ==
  /\ proc.pc = "none"
  /\ proc' = [proc EXCEPT !.pc = "serving"]
  /\ mt' = [mt EXCEPT ![Self] = runMaintenanceLoop(mt[Self])]
  /\ UNCHANGED <<dep, lifeVars, clock, lease, inv, execVars, tail, auth, pass, req>>

\* gracefulShutdown up to its await: server.stop(), stopMaintenanceLoop(),
\* then the race of the loop's promise with the 5 s timer.
BeginShutdown(p) ==
  [p EXCEPT !.pc = "waiting", !.isShuttingDown = TRUE, !.serverStopped = TRUE,
            !.trail = <<"server.stop", "stopMaintenanceLoop", "wait">>]

\* SIGTERM or SIGINT is delivered: gracefulShutdown(signal)
Signal ==
  /\ proc.pc \in {"serving", "waiting"}
  /\ IF proc.isShuttingDown
       THEN /\ proc' = Exit([proc EXCEPT !.signals = @ + 1], 1, "forced")
            /\ UNCHANGED mt
       ELSE /\ proc' = BeginShutdown([proc EXCEPT !.signals = @ + 1])
            /\ mt' = [mt EXCEPT ![Self] = stopMaintenanceLoop(mt[Self])]
  /\ UNCHANGED <<dep, lifeVars, clock, lease, inv, execVars, tail, auth, pass, req>>

\* maintenanceLoopPromise is settled: runMaintenanceLoop() has returned.
LoopReturned == ~mt[Self].isRunning

\* The race is won by the loop's promise: process.exit(0)
ShutdownAfterLoop ==
  /\ proc.pc = "waiting"
  /\ LoopReturned
  /\ proc' = Exit(proc, 0, "loop")
  /\ UNCHANGED <<dep, lifeVars, maintVars, execVars, tail, auth, pass, req>>

\* The race is won by the MAINTENANCE_SHUTDOWN_TIMEOUT timer: process.exit(0)
ShutdownTimeout ==
  /\ proc.pc = "waiting"
  /\ proc' = Exit(proc, 0, "timeout")
  /\ UNCHANGED <<dep, lifeVars, maintVars, execVars, tail, auth, pass, req>>

\* The loop runs as long as the process does.
ProcessLoopStep == proc.pc \in {"serving", "waiting"} /\ LoopStep(Self)

ShutdownNext ==
  \/ Startup
  \/ Signal
  \/ ShutdownAfterLoop
  \/ ShutdownTimeout
  \/ ProcessLoopStep
  \/ Tick

ShutdownSpec == MaintInit /\ [][ShutdownNext]_vars

\* a timer that is armed fires
ShutdownFairSpec == ShutdownSpec /\ WF_vars(ShutdownTimeout)

SecondSignal == proc.isShuttingDown /\ proc'.signals = proc.signals + 1

\* C18: on the first SIGTERM or SIGINT the process stops the HTTP server,
\* then requests the reaper to stop, then waits for the reaper to exit or
\* for 5 s; it exits 0 only once one of the two happened and it eventually
\* terminates even if the loop never returns; a second signal during the
\* shutdown terminates it at once.
C18_GracefulShutdown ==
  /\ [](proc.isShuttingDown =>
          /\ proc.serverStopped
          /\ proc.trail = <<"server.stop", "stopMaintenanceLoop", "wait">>
          /\ mt[Self].isRunning => mt[Self].shutdownRequested)
  /\ [](proc.pc = "exited" /\ proc.exitCode = 0 =>
          \/ proc.by = "timeout"
          \/ proc.by = "loop" /\ ~mt[Self].isRunning)
  /\ [][SecondSignal => proc'.pc = "exited" /\ proc'.exitCode = 1]_vars
  /\ (proc.isShuttingDown ~> proc.pc = "exited")

C18_Witness ==
  /\ proc.pc = "exited"
  /\ proc.exitCode = 0
  /\ proc.by = "timeout"
  /\ mt[Self].isRunning
  /\ mt[Self].pc = "sleep"
  /\ mt[Self].timer = "cleared"

\* ---------------------------------------------------------------------
\* the request has written more to the cluster than its build Job
WroteBeyondJob(p) == cr[p].writes > 1

BuildEnded(p, type) ==
  /\ cr[p].pc = "done"
  /\ cr[p].resp.code = 500
  /\ cr[p].resp.type = type
  /\ ~WroteBeyondJob(p)

\* C19: a create with a command creates the Service and the Deployment only
\* after it observed the build Job with succeeded == 1; a Job observed with
\* failed == 1, or a read of the Job that fails with another status than
\* 404, ends the request with runtime_failed, and the deadline with
\* runtime_timeout, both without creating a Service or a Deployment.
C19_BuildGatesRuntime ==
  \A p \in Creators :
    cr[p].command =>
      /\ WroteBeyondJob(p) => (cr[p].sawJob = "succeeded" /\ job[p].state = "succeeded")
      /\ cr[p].pc \in {"rdsvc", "mksvc", "rddep", "mkdep", "repdep", "stamp", "head"}
           => cr[p].sawJob = "succeeded"
      /\ cr[p].sawJob = "succeeded" => job[p].state = "succeeded"
      /\ cr[p].sawJob = "failed" => (job[p].state = "failed" /\ BuildEnded(p, "runtime_failed"))
      /\ cr[p].sawJob = "error" => BuildEnded(p, "runtime_failed")
      /\ cr[p].sawJob = "deadline" => BuildEnded(p, "runtime_timeout")

C19_Witness ==
  \E p \in Creators :
    /\ cr[p].command
    /\ cr[p].sawJob = "error"
    /\ BuildEnded(p, "runtime_failed")
    /\ job[p].state = "succeeded"
    /\ ~dep[cr[p].id].exists
    /\ ~svc[cr[p].id]

\* ---------------------------------------------------------------------
\* Replica r's maintenance cycle ends in this step, after its last patch was
\* accepted and with no shutdown requested.
CycleEndsClean(r) ==
  /\ mt[r].pc = "patch"
  /\ mt'[r].pc = "sleep"
  /\ dep' # dep

\* the Deployments that were idle with replicas == 1 when r listed them
IdleAtList(r) ==
  {mt[r].items[j].id : j \in {k \in 1..Len(mt[r].items) :
                                Inactive(mt[r].items[k], mt[r].listed)}}

\* the Deployments r has patched in this cycle, the patch of this step included
PatchedInCycle(r) == mt[r].patched \cup {PatchTarget(r)}

\* no invocation is addressed to these runtimes
NeverInvoked == Ids \ RequestIds

\* C21 as stated: after a maintenance cycle in which the replica acquired
\* the lease, no API call failed and no shutdown was requested, every
\* Deployment that at list time had replicas == 1 and was idle for more
\* than the threshold has replicas == 0.
C21_IdleScaledDown ==
  [][\A r \in Replicas :
       CycleEndsClean(r) => \A id \in IdleAtList(r) : dep'[id].replicas = 0]_vars

\* C21: in such a cycle every Deployment that at list time had replicas == 1
\* and was idle for more than the threshold is patched to replicas 0; at
\* the end of the cycle it has replicas == 0 unless an invocation has
\* scaled it up again since its patch.
C21_IdlePatched ==
  [][\A r \in Replicas :
       CycleEndsClean(r) =>
         /\ IdleAtList(r) \subseteq PatchedInCycle(r)
         /\ \A id \in IdleAtList(r) \cap NeverInvoked : dep'[id].replicas = 0]_vars

C21_Witness ==
  \E r \in Replicas :
    /\ mt[r].pc = "patch"
    /\ ~mt[r].shutdownRequested
    /\ mt[r].i = Len(mt[r].items)
    /\ mt[r].patched # {}
    /\ mt[r].patched \subseteq IdleAtList(r)
    /\ \E id \in mt[r].patched : dep[id].replicas = 1

\* ---------------------------------------------------------------------
\* GET /v1/runtimes: the limit query parameter.  A parameter is absent, or a
\* string of characters: a minus sign, a digit, or a letter.

MaxParam == 3

defaultLimit == 25

maxLimit == 100

Digits == {"0", "1", "9"}

Chars == Digits \cup {"-", "x"}

Params == UNION {[1..n -> Chars] : n \in 0..MaxParam}

DigitValue(c) == IF c = "0" THEN 0 ELSE IF c = "1" THEN 1 ELSE 9

\* the value NaN, and a number
NaN == [isNaN |-> TRUE, value |-> 0]

Number(n) == [isNaN |-> FALSE, value |-> n]

\* the longest prefix of str that is made of digits
RECURSIVE LeadingDigits(_)
LeadingDigits(str) ==
  IF str = <<>> \/ Head(str) \notin Digits THEN <<>>
  ELSE <<Head(str)>> \o LeadingDigits(Tail(str))

RECURSIVE Decimal(_)
Decimal(digits) ==
  IF digits = <<>> THEN 0
  ELSE Decimal(SubSeq(digits, 1, Len(digits) - 1)) * 10 + DigitValue(digits[Len(digits)])

\* parseInt(limitParam, 10): an optional sign and the digits that follow it;
\* NaN when there is none
parseInt(str) ==
  LET signed == str # <<>> /\ Head(str) = "-"
      digits == LeadingDigits(IF signed THEN Tail(str) ELSE str)
  IN IF digits = <<>> THEN NaN
     ELSE IF signed THEN Number(0 - Decimal(digits)) ELSE Number(Decimal(digits))

Min(a, b) == IF a <= b THEN a ELSE b

Max(a, b) == IF a >= b THEN a ELSE b

\* let limit = defaultLimit; if (limitParam) { ... Math.min(parsedLimit, maxLimit) }
LimitUncapped(present, limitParam) ==
  IF ~present \/ limitParam = <<>> THEN defaultLimit
  ELSE LET parsedLimit == parseInt(limitParam)
       IN IF ~parsedLimit.isNaN /\ parsedLimit.value > 0
            THEN parsedLimit.value
            ELSE defaultLimit

Limit(present, limitParam) ==
  IF ~present \/ limitParam = <<>> THEN defaultLimit
  ELSE LET parsedLimit == parseInt(limitParam)
       IN IF ~parsedLimit.isNaN /\ parsedLimit.value > 0
            THEN Min(parsedLimit.value, maxLimit)
            ELSE defaultLimit

\* A request for the list arrives.
ListReceive ==
  /\ req.list.pc \in {"none", "done"}
  /\ \E present \in BOOLEAN, limitParam \in Params :
       /\ ~present => limitParam = <<>>
       /\ req' = [req EXCEPT !.list =
                    [pc |-> "parse", present |-> present, limitParam |-> limitParam,
                     limit |-> 0, header |-> 0]]
  /\ UNCHANGED <<dep, lifeVars, maintVars, execVars, tail, proc, auth, pass>>

\* The limit is computed and listNamespacedDeployment is sent with it.
ListCall ==
  /\ req.list.pc = "parse"
  /\ req' = [req EXCEPT !.list.pc = "listed",
                        !.list.limit = Limit(req.list.present, req.list.limitParam)]
  /\ UNCHANGED <<dep, lifeVars, maintVars, execVars, tail, proc, auth, pass>>

\* The answer with 'X-PAGINATION-LIMIT': limit.toString()
ListAnswer ==
  /\ req.list.pc = "listed"
  /\ req' = [req EXCEPT !.list.pc = "done", !.list.header = req.list.limit]
  /\ UNCHANGED <<dep, lifeVars, maintVars, execVars, tail, proc, auth, pass>>

ListNext == ListReceive \/ ListCall \/ ListAnswer

ListSpec == Init /\ [][ListNext]_vars

\* the parameter is a positive integer in decimal notation
IsPositiveInteger(l) ==
  /\ l.present
  /\ l.limitParam # <<>>
  /\ \A n \in 1..Len(l.limitParam) : l.limitParam[n] \in Digits
  /\ Decimal(l.limitParam) > 0

\* the parameter is a number: an optional minus sign, then digits only
IsInteger(l) ==
  /\ l.present
  /\ l.limitParam # <<>>
  /\ LET digits == IF Head(l.limitParam) = "-" THEN Tail(l.limitParam) ELSE l.limitParam
     IN digits # <<>> /\ \A n \in 1..Len(digits) : digits[n] \in Digits

IntegerValue(l) ==
  IF Head(l.limitParam) = "-" THEN 0 - Decimal(Tail(l.limitParam))
  ELSE Decimal(l.limitParam)

\* C22 as stated: the limit passed to the cluster and reported in
\* X-PAGINATION-LIMIT is 25 when the parameter is absent and the parameter
\* clamped into [1, 100] when it is a number, zero and negative included.
C22_LimitClamped ==
  req.list.pc = "done" =>
    /\ req.list.limit = req.list.header
    /\ ~req.list.present => req.list.limit = defaultLimit
    /\ IsInteger(req.list) =>
         req.list.limit = Max(1, Min(IntegerValue(req.list), maxLimit))

\* C22: for every value of the limit parameter the limit passed to the
\* cluster and reported in X-PAGINATION-LIMIT lies in [1, 100]; it is 25
\* when the parameter is absent and min(limit, 100) for a positive integer;
\* zero, negative and non-numeric values give the default 25.
C22_LimitInRange ==
  req.list.pc = "done" =>
    /\ req.list.limit = req.list.header
    /\ req.list.limit \in 1..maxLimit
    /\ ~req.list.present => req.list.limit = defaultLimit
    /\ IsPositiveInteger(req.list) =>
         req.list.limit = Min(Decimal(req.list.limitParam), maxLimit)
    /\ (IsInteger(req.list) /\ IntegerValue(req.list) <= 0) =>
         req.list.limit = defaultLimit

C22_Witness ==
  /\ req.list.pc = "done"
  /\ req.list.limitParam = <<"1", "9", "9">>
  /\ req.list.header = maxLimit

\* ---------------------------------------------------------------------
\* The headers of the proxied request.  A header set maps each name to its
\* value, Absent when the header is not set.

Versions == {"v2", "v4", "v5"}

Absent == "(absent)"

RuntimeSecrets == {"s1", "s2"}

HeaderNames == {"x-custom", "x-internal-challenge", "host", "Content-Type",
                "Authorization", "x-open-runtimes-secret"}

\* `Basic ${Buffer.from(`opr:${secret}`).toString('base64')}`
Basic(user, password) == "Basic " \o user \o ":" \o password

\* headers = {} of the request body: what the caller asks to forward
CallerHeaders ==
  {[n \in HeaderNames |-> IF n \in given THEN "caller" ELSE Absent] :
     given \in SUBSET {"x-custom", "x-internal-challenge", "Authorization"}}

\* const { ..., version = 'v5', ... } = body
BodyVersion(version) == IF version = Absent THEN "v5" ELSE version

\* requestHeaders = { ...headers }, then the headers of the version
requestHeaders(headers, version, secret) ==
  IF version = "v2"
    THEN [n \in HeaderNames |->
            IF n = "x-internal-challenge" THEN secret
            ELSE IF n = "host" THEN "null"
            ELSE IF n = "Content-Type" THEN "application/json"
            ELSE headers[n]]
    ELSE [n \in HeaderNames |->
            IF n = "Authorization" THEN Basic("opr", secret)
            ELSE IF n = "x-open-runtimes-secret" THEN secret
            ELSE headers[n]]

\* An invocation arrives for a runtime whose create recorded a version and
\* a secret; its body names a version, or none.
HdrReceive ==
  /\ req.hdr.pc \in {"none", "sent"}
  /\ \E recorded \in Versions, version \in Versions \cup {Absent},
        secret \in RuntimeSecrets, headers \in CallerHeaders :
       req' = [req EXCEPT !.hdr =
                 [pc |-> "build", recorded |-> recorded, version |-> version,
                  secret |-> secret, headers |-> headers,
                  requestHeaders |-> [n \in HeaderNames |-> Absent]]]
  /\ UNCHANGED <<dep, lifeVars, maintVars, execVars, tail, proc, auth, pass>>

\* The handler builds the headers and sends the proxied request.
HdrSend ==
  /\ req.hdr.pc = "build"
  /\ req' = [req EXCEPT
       !.hdr.pc = "sent",
       !.hdr.requestHeaders =
          requestHeaders(req.hdr.headers, BodyVersion(req.hdr.version), req.hdr.secret)]
  /\ UNCHANGED <<dep, lifeVars, maintVars, execVars, tail, proc, auth, pass>>

HdrNext == HdrReceive \/ HdrSend

HdrSpec == Init /\ [][HdrNext]_vars

\* C23: the authentication headers of a proxied request are governed by the
\* version recorded at create time: a v2 runtime receives
\* x-internal-challenge carrying its secret, a v4 or v5 runtime receives
\* Authorization Basic base64('opr:{secret}') and x-open-runtimes-secret,
\* whatever the body of the invocation request.
C23_HeadersByRecordedVersion ==
  req.hdr.pc = "sent" =>
    IF req.hdr.recorded = "v2"
      THEN req.hdr.requestHeaders["x-internal-challenge"] = req.hdr.secret
      ELSE /\ req.hdr.requestHeaders["Authorization"] = Basic("opr", req.hdr.secret)
           /\ req.hdr.requestHeaders["x-open-runtimes-secret"] = req.hdr.secret

\* ---------------------------------------------------------------------
\* the items after the current one that are idle with replicas == 1
LaterIdle(r) ==
  {j \in (mt[r].i + 1)..Len(mt[r].items) : Inactive(mt[r].items[j], clock)}

\* replica r's patch of the current item fails in this step
PatchFailed(r) ==
  /\ mt[r].pc = "patch"
  /\ ~mt[r].shutdownRequested
  /\ mt'[r] # mt[r]
  /\ ~mt'[r].shutdownRequested
  /\ dep' = dep

\* C24: during a maintenance cycle a failure of the scale-down patch for
\* one Deployment does not stop the cycle: every later Deployment of the
\* list that is idle with replicas == 1 is still patched in that cycle.
C24_FailureDoesNotStopCycle ==
  [][\A r \in Replicas :
       (PatchFailed(r) /\ LaterIdle(r) # {}) =>
          (mt'[r].pc = "patch" /\ mt'[r].i \in LaterIdle(r))]_vars

\* ---------------------------------------------------------------------
\* an invocation of runtime id has scaled it up and its proxied call has not
\* completed yet
ColdInFlight(id) ==
  \E i \in Invokers : inv[i].id = id /\ inv[i].cold /\ inv[i].pc = "proxy"

\* C25: the reaper never scales a Deployment to 0 while an invocation of
\* that runtime is in flight between its scale-up (replicas 0 -> 1) and the
\* completion of its proxied call.
C25_NoScaleDownInFlight ==
  [][\A id \in Ids :
       (dep[id].replicas = 1 /\ dep'[id].replicas = 0) => ~ColdInFlight(id)]_vars

\* ---------------------------------------------------------------------
\* acquireLease() of replica r returns in this step
AcquireReturns(r, result) == InAcquire(mt[r]) /\ mt'[r].result = result

\* the Lease that r read is held by another identity and has not expired
HeldByOther(r, l) ==
  l.exists /\ l.holderIdentity # r /\ ~(mt[r].now - l.renewTime > LEASE_DURATION)

\* the Lease that r read allows r to take or keep it
Obtainable(r, l) ==
  \/ ~l.exists
  \/ l.holderIdentity = r
  \/ mt[r].now - l.renewTime > LEASE_DURATION

\* C26: acquireLease() follows the lease protocol: on an absent lease it
\* creates it with holder self and returns true; when the holder is self it
\* renews renewTime and returns true; when the holder is another identity
\* it returns true and rewrites the holder only if now - renewTime exceeds
\* the lease duration; otherwise it returns false and leaves the lease
\* unchanged; any API error yields false.
C26_LeaseProtocol ==
  [][\A r \in Replicas :
       /\ AcquireReturns(r, "true") =>
            /\ mt[r].pc # "acq_read"
            /\ Obtainable(r, mt[r].seen)
            /\ lease'.exists
            /\ lease'.holderIdentity = r
            /\ lease'.renewTime >= mt[r].now
            /\ ~mt[r].seen.exists => (mt[r].pc = "acq_create" /\ ~lease.exists)
            /\ (mt[r].seen.exists /\ mt[r].seen.holderIdentity = r) =>
                 lease'.acquireTime = mt[r].seen.acquireTime
            /\ (mt[r].seen.exists /\ mt[r].seen.holderIdentity # r) =>
                 lease'.acquireTime >= mt[r].now
       /\ AcquireReturns(r, "false") =>
            /\ lease' = lease
            /\ \/ mt'[r].threw
               \/ mt[r].pc = "acq_read" /\ HeldByOther(r, lease)
       /\ (InAcquire(mt[r]) /\ mt'[r].threw) => AcquireReturns(r, "false")
       /\ (mt[r].pc = "acq_read" /\ mt'[r].pc # "acq_read" /\ ~mt'[r].threw) =>
            IF HeldByOther(r, lease) THEN AcquireReturns(r, "false")
            ELSE mt'[r].pc \in {"acq_create", "acq_replace"} /\ mt'[r].seen = lease]_vars

C26_Witness ==
  \E r \in Replicas :
    /\ mt[r].result = "true"
    /\ mt[r].pc = "list"
    /\ lease.holderIdentity = r
    /\ lease.acquireTime > 0
    /\ lease.renewTime > lease.acquireTime

\* ---------------------------------------------------------------------
\* replica r enters acquireLease() in this step: a new cycle starts
CycleStarts(r) == mt[r].pc # "acq_read" /\ mt'[r].pc = "acq_read"

\* replica r turns to an item of its list in this step and sends its patch
PatchBegins(r) ==
  /\ mt'[r].pc = "patch"
  /\ mt[r].pc # "patch" \/ mt'[r].i # mt[r].i

\* C27: once stopMaintenanceLoop() has been called, the loop starts no new
\* maintenance cycle and issues no scale-down patch for a Deployment it has
\* not already begun to process.
C27_NoNewWorkAfterStop ==
  [][\A r \in Replicas :
       mt[r].shutdownRequested => (~CycleStarts(r) /\ ~PatchBegins(r))]_vars

C27_Witness ==
  \E r \in Replicas :
    /\ mt[r].isRunning
    /\ mt[r].shutdownRequested
    /\ mt[r].pc = "patch"
    /\ LaterIdle(r) # {}

\* ---------------------------------------------------------------------
\* C28: at most one maintenance loop is active per process: a call to
\* runMaintenanceLoop() while a loop is running returns without starting a
\* second loop, and after a loop has been stopped and has exited, a later
\* runMaintenanceLoop() starts a new loop.
C28_OneLoopPerProcess ==
  \A r \in Replicas :
    /\ mt[r].active <= 1
    /\ mt[r].isRunning <=> mt[r].active = 1
    /\ mt[r].isRunning => runMaintenanceLoop(mt[r]) = mt[r]
    /\ ~mt[r].isRunning =>
         LET started == runMaintenanceLoop(mt[r]) IN
           /\ started.isRunning
           /\ ~started.shutdownRequested
           /\ started.pc = "sleep"
           /\ started.active = 1
           /\ started.starts = mt[r].starts + 1

C28_Witness ==
  \E r \in Replicas :
    /\ mt[r].starts = MaxStarts
    /\ mt[r].isRunning
    /\ mt[r].active = 1
    /\ mt[r].pc = "patch"

\* ---------------------------------------------------------------------
\* the pod of runtime id is up and has not yet started to listen, so that
\* no probe of it can have succeeded
PodUnprobed(id) == dep[id].exists /\ pod[id] = "ready"

\* an invocation of runtime id has probed its pod with success
ProbedBy(id) == \E e \in Execs : ex[e].id = id /\ ex[e].probed

\* C29: the listening annotation changes from 0 to 1 only after a listening
\* probe of the runtime's pod has succeeded, it never changes from 1 back
\* to 0 within one pod lifetime, and it is 0 whenever a new pod has appeared
\* after a scale 0 -> 1 and has not yet been probed.
C29_ListeningFollowsPod ==
  /\ [](\A id \in Ids : PodUnprobed(id) => dep[id].listening = 0)
  /\ [][\A id \in Ids :
          /\ (dep[id].exists /\ dep[id].listening = 0 /\ dep'[id].listening = 1)
               => ProbedBy(id)
          /\ (dep[id].exists /\ dep'[id].exists /\ dep[id].listening = 1
                /\ dep'[id].listening = 0) => pod[id] = "none"]_vars

\* ---------------------------------------------------------------------
\* checkPodListening (utils/runtime.ts).  Times are in milliseconds; the
\* field elapsed is Date.now() - startTime.
MaxTimeout == 2
AbortAfter == 2000
RetryDelay == 500

\* the timeout argument, in seconds
Timeouts == -1 .. MaxTimeout

\* the time a fetch takes to answer or to fail before it is aborted
Delays == {0, 500, 1000, 1500}

Window(p) == p.timeout * 1000

\* the test of the while loop: another probe is sent, or false is returned
ProbeLoop(p) ==
  IF p.elapsed < Window(p)
    THEN [p EXCEPT !.pc = "fetch", !.sent = p.elapsed, !.probes = @ + 1]
    ELSE [p EXCEPT !.pc = "returned", !.result = FALSE]

\* the fetch resolved with a response: any status returns true
Responded(p, d, status) ==
  [p EXCEPT !.pc = "returned", !.result = TRUE, !.elapsed = @ + d,
            !.answered = TRUE, !.answeredAt = p.elapsed + d,
            !.status = status]

ProbeCall ==
  /\ req.probe.pc = "none"
  /\ \E timeout \in Timeouts :
       req' = [req EXCEPT !.probe =
                 ProbeLoop([pc |-> "while", timeout |-> timeout, elapsed |-> 0,
                            sent |-> 0, probes |-> 0,
                            answered |-> FALSE, answeredAt |-> 0,
                            status |-> 0, result |-> FALSE])]
  /\ UNCHANGED <<dep, lifeVars, maintVars, execVars, tail, proc, auth, pass>>

ProbeResponse ==
  /\ req.probe.pc = "fetch"
  /\ \E d \in Delays, status \in Statuses :
       req' = [req EXCEPT !.probe = Responded(req.probe, d, status)]
  /\ UNCHANGED <<dep, lifeVars, maintVars, execVars, tail, proc, auth, pass>>

\* the fetch rejected: the connection failed, or the abort timer fired
ProbeThrows ==
  /\ req.probe.pc = "fetch"
  /\ \E d \in Delays \cup {AbortAfter} :
       req' = [req EXCEPT !.probe.pc = "sleep", !.probe.elapsed = @ + d]
  /\ UNCHANGED <<dep, lifeVars, maintVars, execVars, tail, proc, auth, pass>>

ProbeWake ==
  /\ req.probe.pc = "sleep"
  /\ req' = [req EXCEPT !.probe =
               ProbeLoop([req.probe EXCEPT !.elapsed = @ + RetryDelay])]
  /\ UNCHANGED <<dep, lifeVars, maintVars, execVars, tail, proc, auth, pass>>

ProbeReturn ==
  /\ req.probe.pc = "returned"
  /\ req' = [req EXCEPT !.probe = NoProbe]
  /\ UNCHANGED <<dep, lifeVars, maintVars, execVars, tail, proc, auth, pass>>

ProbeNext == ProbeCall \/ ProbeResponse \/ ProbeThrows \/ ProbeWake \/ ProbeReturn

ProbeSpec == Init /\ [][ProbeNext]_vars

WaitLoop(p) ==
  IF p.elapsed < Window(p)
    THEN [p EXCEPT !.pc = "read"]
    ELSE [p EXCEPT !.pc = "returned", !.result = "runtime_timeout"]

WaitCall ==
  /\ req.wait.pc = "none"
  /\ \E id \in RequestIds, timeout \in Timeouts :
       req' = [req EXCEPT !.wait =
                 WaitLoop([pc |-> "while", id |-> id, timeout |-> timeout,
                           elapsed |-> 0, reads |-> 0, sawStatus |-> "",
                           result |-> ""])]
  /\ UNCHANGED <<dep, lifeVars, maintVars, execVars, tail, proc, auth, pass>>

\* const status = await getRuntimeStatus(runtimeId), and the test of it
WaitRead ==
  /\ req.wait.pc = "read"
  /\ \E d \in {0, RetryDelay} :
       LET p == [req.wait EXCEPT !.elapsed = @ + d, !.reads = @ + 1,
                                 !.sawStatus = getRuntimeStatus(req.wait.id).status] IN
         req' = [req EXCEPT !.wait =
                   IF NotPending(req.wait.id)
                     THEN [p EXCEPT !.pc = "returned", !.result = "ok"]
                     ELSE [p EXCEPT !.pc = "sleep"]]
  /\ UNCHANGED <<dep, lifeVars, maintVars, execVars, tail, proc, auth, pass>>

WaitWake ==
  /\ req.wait.pc = "sleep"
  /\ req' = [req EXCEPT !.wait =
               WaitLoop([req.wait EXCEPT !.elapsed = @ + RetryDelay])]
  /\ UNCHANGED <<dep, lifeVars, maintVars, execVars, tail, proc, auth, pass>>

WaitReturn ==
  /\ req.wait.pc = "returned"
  /\ req' = [req EXCEPT !.wait = NoWait]
  /\ UNCHANGED <<dep, lifeVars, maintVars, execVars, tail, proc, auth, pass>>

\* a create without build and a delete of the runtime waited for
WaitNext ==
  \/ WaitCall \/ WaitRead \/ WaitWake \/ WaitReturn
  \/ CreateStart("c2") \/ CreateCheckExists("c2")
  \/ CreateReadService("c2") \/ CreateService("c2") \/ CreateReadDeployment("c2")
  \/ CreateDeployment("c2") \/ CreateStamp("c2") \/ CreateHeadObject("c2")
  \/ \E d \in Deleters : DeleteStart(d) \/ DeleteDeployment(d) \/ DeleteService(d)
                           \/ DeleteCleanupJob(d)

WaitSpec == Init /\ [][WaitNext]_vars

\* C31: waitForRuntimeReady returns normally only after it has read the
\* Deployment with a status other than 'pending' (the Deployment was then
\* present and not pending); it fails, with runtime_timeout, only when the
\* window has expired, so it fails if the Deployment stays absent or
\* pending for the whole window; and it performs no write.
C31_WaitForRuntimeReady ==
  /\ [](req.wait.pc = "returned" =>
          /\ req.wait.result = "ok" =>
               (req.wait.reads >= 1 /\ req.wait.sawStatus \notin {"null", "pending"})
          /\ req.wait.result # "ok" =>
               (req.wait.result = "runtime_timeout"
                  /\ req.wait.elapsed >= Window(req.wait)
                  /\ req.wait.sawStatus \in {"", "null", "pending"}))
  /\ [][/\ (req.wait.pc = "read" /\ req'.wait.pc = "returned")
             => (dep[req.wait.id].exists /\ dep[req.wait.id].status # "pending")
        /\ (req.wait.pc = "read"
              /\ (~dep[req.wait.id].exists \/ dep[req.wait.id].status = "pending"))
             => req'.wait.pc \in {"read", "sleep"}
        /\ req'.wait # req.wait => UNCHANGED <<dep, lifeVars>>]_vars

\* a first read found the runtime absent or pending, a later one found it up
C31_Witness ==
  /\ req.wait.pc = "returned"
  /\ req.wait.result = "ok"
  /\ req.wait.reads >= 2

\* ---------------------------------------------------------------------
\* GET /v1/runtimes/:runtimeId/logs: the stream, its ticker, its timeout
\* and the onData and onError callbacks of the tail of timings.txt.
MaxEntries == 2
MaxErrors == 1

\* the signed lengths a timing entry may carry
Lengths == {2, -1}

\* getLogOffset(logsContent) for a banner of 0 or 2 characters
Intros == {1, 3}

\* the chunks the tail may hand to onData: the entries of one or two rows
TimingChunks == UNION {[1..n -> Lengths] : n \in 1..MaxEntries}

RECURSIVE Entries(_)
\* the number of timing entries in a sequence of chunks
Entries(chunks) ==
  IF chunks = <<>> THEN 0 ELSE Len(Head(chunks)) + Entries(Tail(chunks))

\* the stream as start() finds it
OpenedStream ==
  [pc |-> "intro", introOffset |-> 0, offset |-> 0, logsChunk |-> <<>>,
   out |-> <<>>, closed |-> FALSE, closedBy |-> "", streamTimer |-> FALSE,
   checks |-> 0, timeout |-> FALSE, cancelled |-> FALSE,
   chunks |-> <<>>, jobs |-> <<>>,
   \* history: operations on the closed stream, calls of onError; threw
   \* marks a callback that an exception has ended
   attempts |-> 0, errors |-> 0, threw |-> FALSE]

\* controller.enqueue(new TextEncoder().encode(logsChunk)) under if (logsChunk)
Enqueue(l) ==
  IF l.threw \/ l.logsChunk = <<>> THEN l
  ELSE IF l.closed THEN [l EXCEPT !.attempts = @ + 1, !.threw = TRUE]
  ELSE [l EXCEPT !.out = @ \o l.logsChunk]

\* logsChunk = ''
Clear(l) == IF l.threw THEN l ELSE [l EXCEPT !.logsChunk = <<>>]

\* clearInterval(streamTimer)
ClearInterval(l) == IF l.threw THEN l ELSE [l EXCEPT !.streamTimer = FALSE]

\* tailProcessCleanup()
Cleanup(l) == IF l.threw THEN l ELSE [l EXCEPT !.cancelled = TRUE]

\* controller.close()
Close(l, by) ==
  IF l.threw THEN l
  ELSE IF l.closed THEN [l EXCEPT !.attempts = @ + 1, !.threw = TRUE]
  ELSE [l EXCEPT !.closed = TRUE, !.closedBy = by]

\* the callback returns, or the exception leaves it
Return(l) == [l EXCEPT !.threw = FALSE]

\* new ReadableStream({start}): start() awaits the first read of logs.txt
LogsStart ==
  /\ req.logs.pc = "none"
  /\ req' = [req EXCEPT !.logs = OpenedStream]
  /\ UNCHANGED <<dep, lifeVars, maintVars, execVars, tail, proc, auth, pass>>

\* the first read answers: the ticker, the tail and the timeout are set up,
\* or the stream is closed when the read failed
LogsIntro ==
  /\ req.logs.pc = "intro"
  /\ \/ \E introOffset \in Intros :
          req' = [req EXCEPT !.logs.pc = "open", !.logs.introOffset = introOffset,
                             !.logs.streamTimer = TRUE, !.logs.timeout = TRUE]
     \/ req' = [req EXCEPT !.logs = Return(Close([req.logs EXCEPT !.pc = "failed"], "read"))]
  /\ UNCHANGED <<dep, lifeVars, maintVars, execVars, tail, proc, auth, pass>>

\* the ticker fires: getRuntimeStatus(runtimeId) is called
MaxPending == 1

LogsTick ==
  /\ req.logs.pc = "open"
  /\ req.logs.streamTimer
  /\ req.logs.checks < MaxPending
  /\ req' = [req EXCEPT !.logs.checks = @ + 1]
  /\ UNCHANGED <<dep, lifeVars, maintVars, execVars, tail, proc, auth, pass>>

\* the .then of the ticker
Checked(l, status) ==
  IF status = Null
    THEN Close(Enqueue(ClearInterval(l)), "gone")
  ELSE IF status.initialised = 1
    THEN Close(ClearInterval(Clear(Enqueue(l))), "initialised")
  ELSE Clear(Enqueue(l))

LogsCheck ==
  /\ req.logs.pc = "open"
  /\ req.logs.checks > 0
  /\ \E id \in RequestIds :
       req' = [req EXCEPT !.logs =
                 Return(Checked([req.logs EXCEPT !.checks = @ - 1], getRuntimeStatus(id)))]
  /\ UNCHANGED <<dep, lifeVars, maintVars, execVars, tail, proc, auth, pass>>

\* stdoutStream.write: onData(timingChunk) runs up to its first await
LogsOnData ==
  /\ req.logs.pc = "open"
  /\ \E chunk \in TimingChunks :
       /\ Entries(req.logs.chunks) + Len(chunk) <= MaxEntries
       /\ req' = [req EXCEPT !.logs.chunks = Append(@, chunk),
                             !.logs.jobs = Append(@, "exists")]
  /\ UNCHANGED <<dep, lifeVars, maintVars, execVars, tail, proc, auth, pass>>

\* fileExistsInPod has answered: without the file the tail is cancelled, with
\* it the chunk is parsed and logs.txt is read again
LogsExists(c) ==
  /\ req.logs.pc = "open"
  /\ c \in DOMAIN req.logs.jobs
  /\ req.logs.jobs[c] = "exists"
  /\ \/ req' = [req EXCEPT !.logs.jobs[c] = "read"]
     \/ req' = [req EXCEPT !.logs.jobs[c] = "dropped", !.logs.cancelled = TRUE]
  /\ UNCHANGED <<dep, lifeVars, maintVars, execVars, tail, proc, auth, pass>>

\* the number of the first entry of chunk c among the entries delivered
FirstEntry(l, c) == Entries(SubSeq(l.chunks, 1, c - 1)) + 1

RECURSIVE Process(_, _, _)
\* for (const part of parts): logsChunk += output; offset += length
Process(l, parts, k) ==
  IF parts = <<>> THEN l
  ELSE LET length == Head(parts)
           output == [entry |-> k, from |-> l.introOffset + l.offset,
                      size |-> IF length < 0 THEN -length ELSE length] IN
         Process([l EXCEPT !.logsChunk = Append(@, output), !.offset = @ + length],
                 Tail(parts), k + 1)

\* readFileFromPod has answered: the parts are processed, or the catch block
\* logs the error
LogsRead(c) ==
  /\ req.logs.pc = "open"
  /\ c \in DOMAIN req.logs.jobs
  /\ req.logs.jobs[c] = "read"
  /\ \/ req' = [req EXCEPT !.logs =
                  Process([req.logs EXCEPT !.jobs[c] = "done"], req.logs.chunks[c],
                          FirstEntry(req.logs, c))]
     \/ req' = [req EXCEPT !.logs.jobs[c] = "dropped"]
  /\ UNCHANGED <<dep, lifeVars, maintVars, execVars, tail, proc, auth, pass>>

\* the onError callback of the tail: a chunk on stderr or a failed status
LogsTailError ==
  /\ req.logs.pc = "open"
  /\ req.logs.errors < MaxErrors
  /\ req' = [req EXCEPT !.logs =
               Return(Close(ClearInterval([req.logs EXCEPT !.errors = @ + 1]), "tail"))]
  /\ UNCHANGED <<dep, lifeVars, maintVars, execVars, tail, proc, auth, pass>>

\* setTimeout(..., timeoutSeconds * 1000)
LogsTimeout ==
  /\ req.logs.pc = "open"
  /\ req.logs.timeout
  /\ req' = [req EXCEPT !.logs =
               Return(Close(Enqueue(Cleanup(ClearInterval(
                 [req.logs EXCEPT !.timeout = FALSE]))), "timeout"))]
  /\ UNCHANGED <<dep, lifeVars, maintVars, execVars, tail, proc, auth, pass>>

LogsStep ==
  \/ LogsStart
  \/ LogsIntro
  \/ LogsTick
  \/ LogsCheck
  \/ LogsOnData
  \/ \E c \in 1..MaxEntries : LogsExists(c) \/ LogsRead(c)
  \/ LogsTailError
  \/ LogsTimeout

\* a create of the runtime has made its Service and is about to make its
\* Deployment; a delete may follow
LogInit ==
  /\ dep = [id \in Ids |-> NoDeployment]
  /\ svc = [id \in Ids |-> id \in RequestIds]
  /\ s3 = [k \in Keys |-> IF k \in {SrcKey(id) : id \in RequestIds} THEN 1 ELSE 0]
  /\ job = [p \in Creators |-> NoJob]
  /\ cleanupJobs = [id \in Ids |-> 0]
  /\ cr = [p \in Creators |->
             IF p = "c2" THEN [IdleCreate EXCEPT !.pc = "mkdep", !.id = "r1", !.writes = 1]
             ELSE IdleCreate]
  /\ dl = [d \in Deleters |-> IdleDelete]
  /\ clock = StartClock
  /\ lease = NoLease
  /\ mt = [r \in Replicas |-> StoppedLoop]
  /\ inv = [i \in Invokers |-> IdleInvoke]
  /\ ExecIdle
  /\ PartsIdle

LogNext ==
  \/ LogsStep
  \/ CreateDeployment("c2") \/ CreateStamp("c2")
  \/ \E d \in Deleters : DeleteStart(d) \/ DeleteDeployment(d) \/ DeleteService(d)
                           \/ DeleteCleanupJob(d)

LogSpec == LogInit /\ [][LogNext]_vars

\* the first read answers and the timeout fires
LogFairSpec == LogSpec /\ WF_vars(LogsIntro) /\ WF_vars(LogsTimeout)

Streaming == req.logs.pc # "none"

\* C33: once a log stream has been closed, by the ticker, by the tail error
\* callback or by the timeout, no further enqueue or close is attempted on
\* it: it is closed exactly once and its timers perform no stream operation
\* afterwards.
C33_ClosedExactlyOnce ==
  Streaming => req.logs.attempts = 0

RECURSIVE Flat(_)
\* the signed lengths of the timing entries, in the order the tail delivered them
Flat(chunks) == IF chunks = <<>> THEN <<>> ELSE Head(chunks) \o Flat(Tail(chunks))

RECURSIVE Sum(_)
Sum(lengths) == IF lengths = <<>> THEN 0 ELSE Head(lengths) + Sum(Tail(lengths))

\* the line of the k-th timing entry: its slice starts at the intro offset
\* plus the sum of the signed lengths of the entries before it
LineOf(l, k) ==
  LET lengths == Flat(l.chunks) IN
    [entry |-> k, from |-> l.introOffset + Sum(SubSeq(lengths, 1, k - 1)),
     size |-> IF lengths[k] < 0 THEN -lengths[k] ELSE lengths[k]]

\* C34: the log stream emits one line per timing entry delivered by the
\* tail, in the order of the timing entries, and the line of the k-th entry
\* carries the slice that starts at the intro offset plus the sum of the
\* signed lengths of the entries before it, also when a chunk arrives while
\* an earlier chunk is still being processed.
C34_LinesFollowEntries ==
  Streaming =>
    /\ Len(req.logs.out) <= Entries(req.logs.chunks)
    /\ \A k \in 1..Len(req.logs.out) : req.logs.out[k] = LineOf(req.logs, k)

\* this step closes the stream
Closes == Streaming /\ ~req.logs.closed /\ req'.logs.pc # "none" /\ req'.logs.closed

\* the lines buffered before the step are on the stream after it
Flushed ==
  \A i \in 1..Len(req.logs.logsChunk) :
     \E j \in 1..Len(req'.logs.out) : req'.logs.out[j] = req.logs.logsChunk[i]

\* C32: every opened log stream is eventually closed; it is closed at a
\* ticker check that finds the runtime gone or initialised == 1, after the
\* buffered lines have been flushed, and otherwise at the timeout, after the
\* remaining buffer has been flushed and the tail cancelled.
C32_ClosedByTickerOrTimeout ==
  /\ [][(req.logs.pc = "open" /\ Closes) =>
          /\ Flushed
          /\ \/ req'.logs.closedBy \in {"gone", "initialised"}
             \/ req'.logs.closedBy = "timeout" /\ req'.logs.cancelled]_vars
  /\ (Streaming ~> (Streaming /\ req.logs.closed))

\* ---------------------------------------------------------------------
\* no create and no delete of runtime id is in flight
Quiet(id) ==
  /\ \A p \in Creators : InFlight(p) => cr[p].id # id
  /\ \A d \in Deleters : DeleteInFlight(d) => dl[d].id # id

\* C35: whenever no create or delete for a runtime is in flight, its Service
\* exists if and only if its Deployment exists, after any sequence of
\* successful or failed create and delete requests.
C35_ServiceIffDeployment ==
  \A id \in RequestIds : Quiet(id) => (svc[id] <=> dep[id].exists)

\* ---------------------------------------------------------------------
\* the Deployment of create request p: the one it created or replaced, which
\* carries the secret it drew
DeploymentOf(p) ==
  /\ cr[p].id # ""
  /\ dep[cr[p].id].exists
  /\ dep[cr[p].id].secret = p

\* C36: no Deployment remains in status 'pending' once the create request
\* that created or replaced it has returned, with success or with an error:
\* it then has a status 'Up ...' with initialised == 1 or does not exist.
C36_NoPendingAfterCreate ==
  \A p \in Creators :
     (cr[p].pc = "done" /\ DeploymentOf(p)) =>
        (dep[cr[p].id].status = "Up" /\ dep[cr[p].id].initialised = 1)

\* ---------------------------------------------------------------------
\* an invocation that read replicas == 0 writes 1 in this step
ScalesUp(id) ==
  \E e \in Execs : ex[e].pc = "scale" /\ ex[e].id = id /\ ex'[e].pc = "waitready"

\* the reaper, for an item it listed with replicas == 1, writes 0 in this step
ScalesDown(id) ==
  \E r \in Replicas :
     /\ mt[r].pc = "patch"
     /\ mt[r].items[mt[r].i].id = id
     /\ mt[r].items[mt[r].i].replicas = 1
     /\ mt'[r] # mt[r]

\* C37: the replicas field of every runtime Deployment is 0 or 1: create
\* sets 0, the invocation path writes only 1 and only after reading 0, and
\* the reaper writes only 0 and only for Deployments it read with
\* replicas == 1.
C37_ReplicasZeroOrOne ==
  /\ [](\A id \in Ids : dep[id].replicas \in {0, 1})
  /\ [][\A id \in Ids :
          /\ (~dep[id].exists /\ dep'[id].exists) => dep'[id].replicas = 0
          /\ (dep[id].exists /\ dep'[id].exists /\ dep'[id].replicas # dep[id].replicas) =>
               IF dep'[id].replicas = 1 THEN ScalesUp(id) ELSE ScalesDown(id)
          /\ ScalesUp(id) => dep'[id].replicas = 1
          /\ ScalesDown(id) => dep'[id].replicas = 0]_vars

\* a runtime that an invocation scaled up and the reaper scaled down again
C37_Witness ==
  \E id \in RequestIds :
     /\ dep[id].exists
     /\ dep[id].replicas = 0
     /\ \E e \in Execs : ex[e].id = id /\ ex[e].cold /\ ex[e].pc = "waitready"

\* ---------------------------------------------------------------------
\* C38: the reaper's only mutation of runtime state is setting replicas to
\* 0 on Deployments it listed with replicas == 1; it never changes an
\* annotation, never deletes or creates a Deployment or a Service, and
\* mutates no Deployment in a cycle where acquireLease() returned false.
C38_ReaperFrame ==
  [][\A r \in Replicas :
       /\ mt'[r] # mt[r] =>
            /\ UNCHANGED lifeVars
            /\ \A id \in Ids :
                 dep'[id] # dep[id] =>
                   /\ mt[r].pc = "patch"
                   /\ mt[r].items[mt[r].i].id = id
                   /\ mt[r].items[mt[r].i].replicas = 1
                   /\ dep[id].exists
                   /\ dep'[id] = [dep[id] EXCEPT !.replicas = 0]
       /\ AcquireReturns(r, "false") => mt'[r].pc \in {"sleep", "stopped"}
       /\ (mt'[r].pc = "list" /\ mt[r].pc # "list") => AcquireReturns(r, "true")
       /\ (mt'[r].pc = "patch" /\ mt'[r] # mt[r]) => mt[r].pc \in {"list", "patch"}]_vars

\* the reaper has scaled a runtime down and goes on with its cycle
C38_Witness ==
  \E r \in Replicas : \E id \in mt[r].patched :
     dep[id].exists /\ dep[id].replicas = 0 /\ dep[id].status = "Up"

\* ---------------------------------------------------------------------
\* The secret of a runtime: the annotation and the environment of the pod
\* template that POST /v1/runtimes writes, and the read of the invocation.
EnvNames == {"CI", "INTERNAL_RUNTIME_KEY", "OPEN_RUNTIMES_SECRET"}

\* variables = {} of the request body
CallerVariables ==
  {[n \in EnvNames |-> IF n \in given THEN "caller" ELSE Absent] :
     given \in SUBSET EnvNames}

\* the versions a body may name: those the executor knows, another one, none
BodyVersions == Versions \cup {"v3", Absent}

\* a merge in which the caller's variables are spread last
mergedVariablesCallerLast(variables, version, secret) ==
  [n \in EnvNames |->
     IF variables[n] # Absent THEN variables[n]
     ELSE IF n = "CI" THEN "true"
     ELSE IF version = "v2" /\ n = "INTERNAL_RUNTIME_KEY" THEN secret
     ELSE IF version \in {"v4", "v5"} /\ n = "OPEN_RUNTIMES_SECRET" THEN secret
     ELSE Absent]

\* mergedVariables = { ...variables, CI: 'true' }, then the variables of the
\* version
mergedVariables(variables, version, secret) ==
  [n \in EnvNames |->
     IF n = "CI" THEN "true"
     ELSE IF version = "v2" /\ n = "INTERNAL_RUNTIME_KEY" THEN secret
     ELSE IF version \in {"v4", "v5"} /\ n = "OPEN_RUNTIMES_SECRET" THEN secret
     ELSE variables[n]]

\* the Deployment of createRuntimeDeploymentDefinition, as far as the secret
\* goes: the annotations, and env of runtime-container
DeploymentWithEnv(version, variables, secret) ==
  [exists |-> TRUE, status |-> "pending", replicas |-> 0, version |-> version,
   secret |-> secret, env |-> variables]

AbsentRuntime ==
  [exists |-> FALSE, status |-> "", replicas |-> 0, version |-> "", secret |-> "",
   env |-> [n \in EnvNames |-> Absent]]

\* the body is read, the secret is drawn, the variables are merged and the
\* definition is built
SecReceive ==
  /\ req.sec.pc \in {"none", "stored"}
  /\ \E version \in BodyVersions, variables \in CallerVariables, secret \in RuntimeSecrets :
       req' = [req EXCEPT !.sec =
                 [pc |-> "apply",
                  runtime |-> IF req.sec.pc = "none" THEN AbsentRuntime ELSE req.sec.runtime,
                  deployment |-> DeploymentWithEnv(BodyVersion(version),
                                   mergedVariables(variables, BodyVersion(version), secret),
                                   secret),
                  given |-> {n \in EnvNames : variables[n] # Absent},
                  replaced |-> FALSE, read |-> ""]]
  /\ UNCHANGED <<dep, lifeVars, maintVars, execVars, tail, proc, auth, pass>>

\* createNamespacedDeployment, or replaceNamespacedDeployment of the one found
SecApply ==
  /\ req.sec.pc = "apply"
  /\ req' = [req EXCEPT !.sec.pc = "stored", !.sec.runtime = req.sec.deployment,
                        !.sec.replaced = req.sec.runtime.exists]
  /\ UNCHANGED <<dep, lifeVars, maintVars, execVars, tail, proc, auth, pass>>

\* the patches of the status annotations and of spec.replicas
SecPatch ==
  /\ req.sec.pc = "stored"
  /\ \/ req.sec.runtime.status = "pending" /\ req' = [req EXCEPT !.sec.runtime.status = "Up"]
     \/ req' = [req EXCEPT !.sec.runtime.replicas = 1 - @]
  /\ UNCHANGED <<dep, lifeVars, maintVars, execVars, tail, proc, auth, pass>>

\* const secret = annotations['appwrite.io/secret'] || ''
SecRead ==
  /\ req.sec.pc = "stored"
  /\ req' = [req EXCEPT !.sec.read = req.sec.runtime.secret]
  /\ UNCHANGED <<dep, lifeVars, maintVars, execVars, tail, proc, auth, pass>>

SecNext == SecReceive \/ SecApply \/ SecPatch \/ SecRead

SecSpec == Init /\ [][SecNext]_vars

\* INTERNAL_RUNTIME_KEY for v2, OPEN_RUNTIMES_SECRET for v4 and v5
SecretVariable(version) ==
  IF version = "v2" THEN "INTERNAL_RUNTIME_KEY" ELSE "OPEN_RUNTIMES_SECRET"

\* C39: the secret annotation of a runtime Deployment equals the secret in
\* the environment of that Deployment's pod (INTERNAL_RUNTIME_KEY for v2,
\* OPEN_RUNTIMES_SECRET for v4 and v5), so that the secret the invocation
\* reads from the annotation is the one the in-pod server expects, also
\* after a create that replaced an existing Deployment.
C39_SecretMatchesEnvironment ==
  (req.sec.pc # "none" /\ req.sec.runtime.exists /\ req.sec.runtime.version \in Versions) =>
     LET d == req.sec.runtime IN
       /\ d.secret \in RuntimeSecrets
       /\ d.env[SecretVariable(d.version)] = d.secret
       /\ req.sec.read # "" => req.sec.read = d.env[SecretVariable(d.version)]

\* a Deployment replaced by a create whose body set the secret variable
\* itself, read by an invocation
C39_Witness ==
  /\ req.sec.pc = "stored"
  /\ req.sec.replaced
  /\ req.sec.runtime.version = "v5"
  /\ "OPEN_RUNTIMES_SECRET" \in req.sec.given
  /\ req.sec.read # ""

====
